---- MODULE Spec2Model ----
(***************************************************************************)
(* Coupon issuance service: the issuance critical path of app/main.py over *)
(* the cache layer of app/cache/redis_cluster.py and the event publisher   *)
(* of app/messaging/kafka_client.py.                                       *)
(*                                                                         *)
(* The KV store is modelled key by key (stock counter, participant set,    *)
(* their TTLs).  Every Redis command and every broker call is one atomic   *)
(* step; a request handler is a sequence of such steps, and the steps of   *)
(* different requests interleave freely (many API workers).                *)
(*                                                                         *)
(* Optional values (Python None) are sequences: <<>> is None, <<v>> is v.  *)
(***************************************************************************)
EXTENDS Integers, Sequences, FiniteSets, TLC

\* ---------------------------------------------------------------- bounds
MaxReqs == 2          \* number of issue requests in flight over a run
MaxAdmin == 1         \* number of admin stock-initialisation calls
MaxStock == 2         \* largest stock an admin configures
MaxFaults == 1        \* number of broker faults over a run
MaxElapse == 2        \* number of times the clock is advanced over a run
MaxLog == 2           \* records published to the topic by other publishers
MaxPoll == 2          \* most records one poll returns
MaxDbFaults == 1      \* number of database errors over a run
MaxRestarts == 1      \* number of consumer restarts over a run
MaxStatus == 2        \* number of status requests over a run
MaxCacheCalls == 3    \* number of direct cache-layer calls over a run
MaxMessages == 2      \* messages published to the SimpleMessageQueue over a run

Reqs == 1..MaxReqs
Users == {"u1", "u2"}
\* Event ids are client-supplied text. "{e1}" is an id that itself contains a
\* brace pair; "e2" is an id without braces; "x:e2" is an id that contains
\* the separator of the key grammar. Events are the ids of the requests and
\* records of every specification but SpecCluster and SpecCache, which draw
\* from AllEvents.
Events == {"{e1}"}
AllEvents == Events \cup {"e2", "x:e2"}
StockValues == 0..MaxStock

\* ------------------------------------------------------ program constants
DEFAULT_STOCK == 1000
TTL_STOCK == 3600
TTL_USER_PARTICIPATION == 3600
SCRIPT_TTL == 3600

None == <<>>
Some(v) == <<v>>
Val(o) == o[1]

VARIABLES
    coupon_issue_sha,  \* "sha" when the script was registered, "None" otherwise
    stock,             \* [Events -> Optional Int]   value of coupon:stock:{e}
    stockTtl,          \* [Events -> Nat]            remaining TTL of the stock key
    participants,      \* [Events -> SUBSET ids]     members of coupon:participants:{e}
    partTtl,           \* [Events -> Nat]            remaining TTL of the set key
    kafka_producer,    \* "None" | "ready"           the process-wide producer handle
    log,               \* Seq of records             topic coupon-events
    req,               \* [Reqs -> record]           issue_coupon invocations
    adminCalls,        \* Seq of records             admin initialisations answered
    uuid_next,         \* Nat                        source of fresh uuid4 values
    admitted,          \* Seq of Reqs                history: admission serial order
    hist,              \* history of the stock keys, see Created
    faults,            \* Nat                        broker faults so far
    elapsed,           \* Nat                        clock advances so far
    position,          \* Nat       the consumer's fetch position in the partition
    committed,         \* Nat       the group's committed offset
    consumer,          \* record    the position of CouponEventProcessor.run
    db,                \* record    the relational tables the consumer writes
    pendingFail,       \* history: offsets that failed and have not succeeded since
    dbFaults,          \* Nat       database errors so far
    restarts,          \* Nat       consumer restarts so far
    statusReq,         \* record    the position of get_coupon_status
    userCoupon,        \* [Users \X AllEvents -> Optional id]  coupon:user:{u}:{e}
    cacheCall,         \* record    the last direct call of the cache layer
    mq,                \* record    the three Redis lists of SimpleMessageQueue
    mqWorker,          \* [QWorkers -> record]  the callers of SimpleMessageQueue
    mqHist             \* history of the queue, see NoQueueHistory

vars == <<coupon_issue_sha, stock, stockTtl, participants, partTtl,
          kafka_producer, log, req, adminCalls, uuid_next, admitted, hist,
          faults, elapsed, position, committed, consumer, db, pendingFail,
          dbFaults, restarts, statusReq, userCoupon, cacheCall, mq, mqWorker,
          mqHist>>

\* SimpleMessageQueue and its callers.
mqVars == <<mq, mqWorker, mqHist>>

\* The status endpoint and the direct callers of the cache layer.
sideVars == <<statusReq, userCoupon, cacheCall>>

\* The consumer process and the relational store.
consVars == <<position, committed, consumer, db, pendingFail, dbFaults,
              restarts>>

kvVars == <<stock, stockTtl, participants, partTtl>>

\* ------------------------------------------------------------ key grammar
\* A key is the text the cache layer derives; two keys are the same Redis
\* key iff their texts are equal. A text is a sequence of tokens in which
\* the braces "{" and "}" are tokens of their own, so that the part of a key
\* Redis Cluster hashes can be computed from it.
Text(event_id) ==
    CASE event_id = "{e1}" -> <<"{", "e1", "}">>
      [] event_id = "x:e2" -> <<"x", ":", "e2">>
      [] OTHER -> <<event_id>>

\* f"coupon:stock:{event_id}": the f-string substitutes the value of
\* event_id for the replacement field; the field's braces are not output.
get_stock_key(event_id) == <<"coupon:stock:">> \o Text(event_id)

\* f"coupon:participants:{event_id}"
get_participants_key(event_id) == <<"coupon:participants:">> \o Text(event_id)

\* f"coupon:user:{user_id}:{event_id}"
get_user_coupon_key(user_id, event_id) ==
    <<"coupon:user:", user_id, ":">> \o Text(event_id)

\* The part of a key the cluster hashes: the text between the first "{" and
\* the first "}" after it when that text is not empty, the whole key
\* otherwise.
HashedPart(key) ==
    LET open == {i \in 1..Len(key) : key[i] = "{"}
        start == CHOOSE i \in open : \A j \in open : i <= j
        close == {i \in (start + 1)..Len(key) : key[i] = "}"}
        end == CHOOSE i \in close : \A j \in close : i <= j
    IN  IF open = {} THEN key
        ELSE IF close = {} \/ end = start + 1 THEN key
        ELSE SubSeq(key, start + 1, end - 1)

\* The keys of one command are served by one slot. The slot is CRC16 of the
\* hashed part mod 16384; the hashed parts of the keys of this model that
\* differ have different slots ("coupon:stock:e2" 10014,
\* "coupon:participants:e2" 15020, "coupon:stock:x:e2" 1472,
\* "coupon:participants:x:e2" 8482, "e1" 4781).
SameSlot(keys) ==
    \A i, j \in 1..Len(keys) : HashedPart(keys[i]) = HashedPart(keys[j])

\* The event an issue request's keys address: the stock key and the
\* participants key handed to the script are both derived from the request's
\* event_id.
ScriptKeys(r) ==
    <<get_stock_key(req[r].event_id), get_participants_key(req[r].event_id)>>

\* The event whose stock key is k (the inverse of get_stock_key).
EventOfStockKey(k) == CHOOSE e \in AllEvents : get_stock_key(e) = k

EventOfParticipantsKey(k) == CHOOSE e \in AllEvents : get_participants_key(e) = k

\* uuid.uuid4(): a fresh identifier; the k-th value drawn is distinct from
\* every other.
Uuid4(k) == "uuid-" \o ToString(k)

\* ---------------------------------------------------------- cache layer
\* CouponCache.get_stock: GET, then `int(stock) if stock else None`. With
\* decode_responses=True the value is the decimal text, which is truthy
\* for every number (also "0"), so None is returned only for an absent key.
get_stock(e) == IF stock[e] = None THEN None ELSE Some(Val(stock[e]))

\* A SET without NX: the value is overwritten whether or not the key exists.
initialize_stock_overwrite(e, n) ==
    [ret |-> "True", stock |-> Some(n), ttl |-> TTL_STOCK]

\* A set-if-absent that reports "created" to every caller.
initialize_stock_reports_created(e, n) ==
    [ret |-> "True",
     stock |-> IF stock[e] = None THEN Some(n) ELSE stock[e],
     ttl |-> IF stock[e] = None THEN TTL_STOCK ELSE stockTtl[e]]

\* CouponCache.initialize_stock: SET key stock EX TTL_STOCK NX, one Redis
\* command. Returns what redis-py returns: True when set, None when the
\* key exists. The result is [ret, stock, ttl]: the return value and the new
\* value and TTL of the key.
initialize_stock(e, n) ==
    IF stock[e] = None
    THEN [ret |-> "True", stock |-> Some(n), ttl |-> TTL_STOCK]
    ELSE [ret |-> "None", stock |-> stock[e], ttl |-> stockTtl[e]]

\* Python truthiness of a redis-py SET reply.
Truthy(ret) == ret = "True"

\* ------------------------------------------------------ admission script
\* A script that reads the stock before it checks participation.
CouponIssueScript_stock_first(keys, argv) ==
    LET se == EventOfStockKey(keys[1])
        pe == EventOfParticipantsKey(keys[2])
        same == [reply |-> <<>>, se |-> se, pe |-> pe,
                 stock |-> stock[se], stockTtl |-> stockTtl[se],
                 participants |-> participants[pe], partTtl |-> partTtl[pe]]
    IN  IF stock[se] = None
        THEN [same EXCEPT !.reply = <<0, "STOCK_NOT_INITIALIZED">>]
        ELSE IF Val(stock[se]) <= 0
        THEN [same EXCEPT !.reply = <<0, "NO_STOCK_AVAILABLE">>]
        ELSE IF argv[1] \in participants[pe]
        THEN [same EXCEPT !.reply = <<0, "USER_ALREADY_PARTICIPATED">>]
        ELSE [reply |-> <<1, "SUCCESS", argv[2], Val(stock[se]) - 1>>,
              se |-> se, pe |-> pe,
              stock |-> Some(Val(stock[se]) - 1), stockTtl |-> argv[3],
              participants |-> participants[pe] \cup {argv[1]},
              partTtl |-> argv[3]]

\* coupon_issue_cluster.lua, by its contract: KEYS = [stock_key,
\* participants_key], ARGV = [user_id, candidate_coupon_id, ttl_seconds].
\* The result is the reply and the new values of the two keys.
CouponIssueScript(keys, argv) ==
    LET se == EventOfStockKey(keys[1])
        pe == EventOfParticipantsKey(keys[2])
        same == [reply |-> <<>>, se |-> se, pe |-> pe,
                 stock |-> stock[se], stockTtl |-> stockTtl[se],
                 participants |-> participants[pe], partTtl |-> partTtl[pe]]
    IN  IF stock[se] = None
        THEN [same EXCEPT !.reply = <<0, "STOCK_NOT_INITIALIZED">>]
        ELSE IF argv[1] \in participants[pe]
        THEN [same EXCEPT !.reply = <<0, "USER_ALREADY_PARTICIPATED">>]
        ELSE IF Val(stock[se]) <= 0
        THEN [same EXCEPT !.reply = <<0, "NO_STOCK_AVAILABLE">>]
        ELSE [reply |-> <<1, "SUCCESS", argv[2], Val(stock[se]) - 1>>,
              se |-> se, pe |-> pe,
              stock |-> Some(Val(stock[se]) - 1), stockTtl |-> argv[3],
              participants |-> participants[pe] \cup {argv[1]},
              partTtl |-> argv[3]]

\* ------------------------------------------------------------- publisher
\* What a send to the broker can do: "ack" - the record is appended and
\* acknowledged by all in-sync replicas; "error" - a KafkaError and nothing
\* appended; "error_written" - future.get(timeout=10) raises a
\* KafkaTimeoutError although the record is appended; "exception" - send
\* raises an exception that is not a KafkaError, nothing appended.
BrokerOutcomes == {"ack", "error", "error_written", "exception"}

\* The publish methods catch KafkaError only: their return value, or
\* "raised" when the exception leaves the method.
PublishReturn(outcome) ==
    CASE outcome = "ack" -> "True"
      [] outcome = "exception" -> "raised"
      [] OTHER -> "False"

Appended(outcome) == outcome \in {"ack", "error_written"}

\* The fault budget: a send that is not acknowledged uses up one fault.
FaultAllowed(outcome) == outcome = "ack" \/ faults < MaxFaults

FaultsAfter(outcome) == IF outcome = "ack" THEN faults ELSE faults + 1

\* KafkaEventProducer._create_event_message with the producer's key: the
\* envelope of one record of topic coupon-events (the envelope's own uuid
\* and its timestamps are left out).
IssuedMessage(user_id, event_id, coupon_id) ==
    [event_type |-> "coupon_issued", version |-> "1.0", key |-> event_id,
     user_id |-> Some(user_id), event_id |-> event_id,
     coupon_id |-> Some(coupon_id), remaining_stock |-> None,
     redeemed_at |-> None]

\* The instant a redemption is published at (the clock is not modelled).
Instants == {"t1"}

\* datetime.isoformat(): the ISO 8601 text of an instant.
isoformat(t) == [iso |-> t]

\* datetime.fromisoformat(): the instant an ISO 8601 text denotes.
fromisoformat(text) == text.iso

RedeemedMessage(user_id, event_id, coupon_id) ==
    [event_type |-> "coupon_redeemed", version |-> "1.0", key |-> event_id,
     user_id |-> Some(user_id), event_id |-> event_id,
     coupon_id |-> Some(coupon_id), remaining_stock |-> None,
     redeemed_at |-> Some(isoformat(CHOOSE t \in Instants : TRUE))]

ExhaustedMessage(event_id, remaining_stock) ==
    [event_type |-> "stock_exhausted", version |-> "1.0", key |-> event_id,
     user_id |-> None, event_id |-> event_id,
     coupon_id |-> None, remaining_stock |-> Some(remaining_stock),
     redeemed_at |-> None]

\* A publish that reports True also when the send failed.
publish_coupon_issued_reports_true(user_id, event_id, coupon_id, outcome) ==
    [ret |-> "True",
     log |-> IF Appended(outcome)
             THEN Append(log, IssuedMessage(user_id, event_id, coupon_id))
             ELSE log]

\* KafkaEventProducer.publish_coupon_issued: [ret, log]; a KafkaError is
\* caught and turned into False.
publish_coupon_issued(user_id, event_id, coupon_id, outcome) ==
    [ret |-> PublishReturn(outcome),
     log |-> IF Appended(outcome)
             THEN Append(log, IssuedMessage(user_id, event_id, coupon_id))
             ELSE log]

\* KafkaEventProducer.publish_stock_exhausted: [ret, log].
publish_stock_exhausted(event_id, remaining_stock, outcome) ==
    [ret |-> PublishReturn(outcome),
     log |-> IF Appended(outcome)
             THEN Append(log, ExhaustedMessage(event_id, remaining_stock))
             ELSE log]

\* ------------------------------------------------------------- responses
NoResponse ==
    [status |-> 0, success |-> FALSE, message |-> "",
     coupon_id |-> None, remaining_stock |-> None]

\* HTTPException(status_code=500, ...)
Http500(detail) ==
    [status |-> 500, success |-> FALSE, message |-> detail,
     coupon_id |-> None, remaining_stock |-> None]

\* CouponResponse(success=True, ...) of issue_coupon
SuccessResponse(coupon_id, remaining_stock) ==
    [status |-> 200, success |-> TRUE, message |-> "Coupon issued successfully",
     coupon_id |-> Some(coupon_id), remaining_stock |-> Some(remaining_stock)]

\* error_messages.get(message, message)
ErrorMessage(code) ==
    CASE code = "USER_ALREADY_PARTICIPATED" -> "User already has a coupon for this event"
      [] code = "NO_STOCK_AVAILABLE" -> "No coupons available"
      [] code = "STOCK_NOT_INITIALIZED" -> "Event not found or not active"
      [] OTHER -> code

\* A refusal raised as an error instead of returned as a result.
FailureResponse_raises(code, remaining_stock) == Http500(code)

\* CouponResponse(success=False, ...) of issue_coupon
FailureResponse(code, remaining_stock) ==
    [status |-> 200, success |-> FALSE, message |-> ErrorMessage(code),
     coupon_id |-> None, remaining_stock |-> remaining_stock]

NewRequest ==
    [pc |-> "idle", user_id |-> "", event_id |-> "", coupon_id |-> "",
     result |-> <<>>, seeded |-> "unset", published |-> "unset",
     resp |-> NoResponse]

\* ------------------------------------------------------ relational store
\* The tables the consumer writes. user_coupons: a set of rows (coupon_id
\* unique, (user_id, event_id) unique); coupon_usage: rows in insertion
\* order (an autoincrement key, no unique constraint); coupon_events: at most
\* one row per event_id.
EmptyDb ==
    [user_coupons |-> {}, coupon_usage |-> <<>>,
     coupon_events |-> [e \in Events |-> None]]

\* user_coupons with the unique index on coupon_id only.
DuplicateEntry_coupon_id_only(d, coupon_id, user_id, event_id) ==
    \E row \in d.user_coupons : row.coupon_id = coupon_id

\* The unique indexes of user_coupons: would inserting (coupon_id, user_id,
\* event_id) raise IntegrityError "Duplicate entry"?
DuplicateEntry(d, coupon_id, user_id, event_id) ==
    \E row \in d.user_coupons :
        \/ row.coupon_id = coupon_id
        \/ row.user_id = user_id /\ row.event_id = event_id

\* CouponEventProcessor.process_coupon_issued: [ret, db]. dbError - the
\* session raises an exception other than the duplicate-key error.
process_coupon_issued(d, event_data, dbError) ==
    LET c == Val(event_data.coupon_id)
        u == Val(event_data.user_id)
        e == event_data.event_id
    IN  IF dbError
        THEN [ret |-> FALSE, db |-> d]
        ELSE IF DuplicateEntry(d, c, u, e)
        THEN [ret |-> TRUE, db |-> d]
        ELSE [ret |-> TRUE,
              db |-> [d EXCEPT !.user_coupons = @ \cup
                        {[coupon_id |-> c, user_id |-> u, event_id |-> e,
                          is_used |-> FALSE, used_at |-> None]}]]

\* The user_coupons table with the row of coupon c marked used at the
\* instant the record carries.
MarkedUsed(rows, c, event_data) ==
    {IF row.coupon_id = c
     THEN [row EXCEPT !.is_used = TRUE,
                      !.used_at = Some(fromisoformat(Val(event_data.redeemed_at)))]
     ELSE row : row \in rows}

\* The coupon_usage row of a redemption.
UsageRow(event_data) ==
    [coupon_id |-> Val(event_data.coupon_id),
     user_id |-> Val(event_data.user_id),
     event_id |-> event_data.event_id,
     used_at |-> fromisoformat(Val(event_data.redeemed_at))]

\* A redemption that commits the update of the user_coupons row before it
\* inserts the usage row: a database error leaves the first half stored.
process_coupon_redeemed_commits_twice(d, event_data, dbError) ==
    LET c == Val(event_data.coupon_id)
        found == {row \in d.user_coupons : row.coupon_id = c}
    IN  IF found = {}
        THEN [ret |-> FALSE, db |-> d]
        ELSE IF dbError
        THEN [ret |-> FALSE,
              db |-> [d EXCEPT !.user_coupons = MarkedUsed(@, c, event_data)]]
        ELSE [ret |-> TRUE,
              db |-> [d EXCEPT
                  !.user_coupons = MarkedUsed(@, c, event_data),
                  !.coupon_usage = Append(@, UsageRow(event_data))]]

\* CouponEventProcessor.process_coupon_redeemed: [ret, db]. The update of
\* the row and the insert of the usage row are flushed by one db.commit();
\* an exception anywhere rolls the session back.
process_coupon_redeemed(d, event_data, dbError) ==
    LET c == Val(event_data.coupon_id)
        found == {row \in d.user_coupons : row.coupon_id = c}
    IN  IF dbError
        THEN [ret |-> FALSE, db |-> d]
        ELSE IF found = {}
        THEN [ret |-> FALSE, db |-> d]
        ELSE [ret |-> TRUE,
              db |-> [d EXCEPT
                  !.user_coupons = MarkedUsed(@, c, event_data),
                  !.coupon_usage = Append(@, UsageRow(event_data))]]

\* CouponEventProcessor.process_stock_exhausted: [ret, db].
process_stock_exhausted(d, event_data, dbError) ==
    LET e == event_data.event_id
    IN  IF dbError
        THEN [ret |-> FALSE, db |-> d]
        ELSE IF d.coupon_events[e] = None
        THEN [ret |-> FALSE, db |-> d]
        ELSE [ret |-> TRUE,
              db |-> [d EXCEPT !.coupon_events[e] =
                        Some([remaining_stock |-> Val(event_data.remaining_stock),
                              is_active |-> FALSE])]]

\* CouponEventProcessor.process_event: dispatch on event_type.
process_event(d, event, dbError) ==
    CASE event.event_type = "coupon_issued" ->
             process_coupon_issued(d, event, dbError)
      [] event.event_type = "coupon_redeemed" ->
             process_coupon_redeemed(d, event, dbError)
      [] event.event_type = "stock_exhausted" ->
             process_stock_exhausted(d, event, dbError)
      [] OTHER -> [ret |-> FALSE, db |-> d]

\* `for event in events: process_event(event)` over a sequence of records,
\* no database error occurring: the store after the last record.
RECURSIVE Replay(_, _)
Replay(d, events) ==
    IF events = <<>>
    THEN d
    ELSE Replay(process_event(d, Head(events), FALSE).db, Tail(events))

\* The loop of CouponEventProcessor.run between two polls.
Polling == [pc |-> "poll", events |-> <<>>, i |-> 1, success_count |-> 0,
            commit |-> "none"]

\* The keys of the envelope _create_event_message builds.
EnvelopeKeys == {"event_id", "event_type", "timestamp", "version", "data"}

\* The keys of a record's envelope: those of _create_event_message unless
\* the record says otherwise.
KeysOf(event) ==
    IF "envelope" \in DOMAIN event THEN event.envelope ELSE EnvelopeKeys

\* event['value']['event_type'] and event['value']['data'] at the head of
\* process_event: a KeyError when the envelope lacks either key.
RaisesKeyError(event) == ~ ({"event_type", "data"} \subseteq KeysOf(event))

\* run() after an exception left the loop: `except Exception` logs it,
\* `finally` calls cleanup, run returns and the process ends.
Stopped == [Polling EXCEPT !.pc = "stopped"]

\* No response of get_coupon_status yet.
NoStatusResponse ==
    [status |-> 0, event_id |-> "", remaining_stock |-> 0,
     total_participants |-> 0, state |-> ""]

\* HTTPException(status_code=500, ...) of get_coupon_status
StatusHttp500 == [NoStatusResponse EXCEPT !.status = 500]

\* EventStatusResponse(event_id, remaining_stock, total_participants,
\* status): the response's own `status` field is `state` here, `status` is
\* the HTTP status code.
EventStatusResponse(event_id, remaining_stock, total_participants) ==
    [status |-> 200, event_id |-> event_id,
     remaining_stock |-> remaining_stock,
     total_participants |-> total_participants,
     state |-> IF remaining_stock > 0 THEN "active" ELSE "sold_out"]

\* get_coupon_status before its first call: n - the calls made so far.
NoStatusRequest ==
    [pc |-> "idle", n |-> 0, event_id |-> "", current_stock |-> None,
     resp |-> NoStatusResponse]

\* No direct call of the cache layer made yet. n - the calls made so far;
\* outcome - "returned" or "raised"; ret - the value returned; fault - a
\* Redis command of the call failed.
NoCacheCall ==
    [n |-> 0, op |-> "", event_id |-> "", user_id |-> "", outcome |-> "",
     ret |-> None, fault |-> FALSE]

\* -------------------------------------------------- SimpleMessageQueue
\* The default of reject's max_retries parameter.
DEFAULT_MAX_RETRIES == 3

\* The processes that call the queue.
QWorkers == {"w1", "w2"}

\* The message ids of a run: uuid4 values, the k-th publish drawing the k-th.
MessageIds == {Uuid4(k) : k \in 1..MaxMessages}

\* json.dumps(message): the text stored in a Redis list.
dumps(msg) == [json |-> msg]

\* json.loads(text): the message a stored text denotes.
loads(text) == text.json

\* The lists queue_name, queue_name:processing and queue_name:dlq, each
\* with its head (where LPUSH inserts) first.
EmptyQueues == [pending |-> <<>>, processing |-> <<>>, dead_letter |-> <<>>]

\* A caller between two calls. message_id, max_retries, msg_json - the
\* arguments and the element found of the acknowledge or reject call under
\* way; got - what the caller's last consume returned; ret - what its last
\* acknowledge or reject returned.
IdleWorker ==
    [pc |-> "idle", message_id |-> "", max_retries |-> 0, msg_json |-> None,
     got |-> None, ret |-> "unset"]

\* History only: published - the number of publish calls; acked - the ids
\* for which an acknowledge returned True; deliveries - how often consume
\* returned each id; custom - the ids rejected with a max_retries other than
\* the default.
NoQueueHistory ==
    [published |-> 0, acked |-> {}, deliveries |-> [m \in MessageIds |-> 0],
     custom |-> {}]

\* ------------------------------------------------------------------ Init
Init ==
    /\ coupon_issue_sha \in {"sha", "None"}
    /\ stock = [e \in AllEvents |-> None]
    /\ stockTtl = [e \in AllEvents |-> 0]
    /\ participants = [e \in AllEvents |-> {}]
    /\ partTtl = [e \in AllEvents |-> 0]
    /\ kafka_producer = "None"
    /\ log = <<>>
    /\ req = [r \in Reqs |-> NewRequest]
    /\ adminCalls = <<>>
    /\ uuid_next = 1
    /\ admitted = <<>>
    /\ hist = [e \in AllEvents |->
                  [total |-> None, configured |-> None, epochStart |-> 0]]
    /\ faults = 0
    /\ elapsed = 0
    /\ position = 0
    /\ committed = 0
    /\ consumer = Polling
    /\ db = EmptyDb
    /\ pendingFail = {}
    /\ dbFaults = 0
    /\ restarts = 0
    /\ statusReq = NoStatusRequest
    /\ userCoupon = [k \in Users \X AllEvents |-> None]
    /\ cacheCall = NoCacheCall
    /\ mq = EmptyQueues
    /\ mqWorker = [w \in QWorkers |-> IdleWorker]
    /\ mqHist = NoQueueHistory

\* ------------------------------------------------------------- issue_coupon
\* The first two script arguments in the wrong order.
ScriptArgs_swapped(r, coupon_id) == <<coupon_id, req[r].user_id, SCRIPT_TTL>>

\* The ARGV of the script call: [request.user_id, coupon_id, 3600].
ScriptArgs(r, coupon_id) == <<req[r].user_id, coupon_id, SCRIPT_TTL>>

\* History only, per event: total - the stock the counter was created with the
\* last time it was created; configured - the stock it was created with the
\* first time; epochStart - the number of admissions made before the last
\* creation.
Created(e, before, after) ==
    IF before = None /\ after # None
    THEN [hist EXCEPT ![e].total = after,
                      ![e].configured = IF @ = None THEN after ELSE @,
                      ![e].epochStart = Len(admitted)]
    ELSE hist

\* A handler without the check of coupon_issue_sha.
IssueStart_ignores_sha(r, u, e) ==
    /\ req[r].pc = "idle"
    /\ \A q \in Reqs : q < r => req[q].pc # "idle"
    /\ req' = [req EXCEPT ![r].user_id = u, ![r].event_id = e,
                          ![r].pc = IF get_stock(e) = None
                                    THEN "seed" ELSE "script"]
    /\ UNCHANGED <<mqVars, consVars, sideVars, coupon_issue_sha, kvVars, kafka_producer, log,
                   adminCalls, uuid_next, admitted, hist, faults, elapsed>>

\* A request arrives. Without a registered script it is refused at once;
\* otherwise the handler's first Redis call is get_stock.
IssueStart(r, u, e) ==
    /\ req[r].pc = "idle"
    /\ \A q \in Reqs : q < r => req[q].pc # "idle"
    /\ IF coupon_issue_sha = "None"
       THEN req' = [req EXCEPT ![r].pc = "done", ![r].user_id = u,
                               ![r].event_id = e,
                               ![r].resp = Http500("Lua script not available")]
       ELSE req' = [req EXCEPT ![r].user_id = u, ![r].event_id = e,
                               ![r].pc = IF get_stock(e) = None
                                         THEN "seed" ELSE "script"]
    /\ UNCHANGED <<mqVars, consVars, sideVars, coupon_issue_sha, kvVars, kafka_producer, log, adminCalls,
                   uuid_next, admitted, hist, faults, elapsed>>

\* get_stock returned None: coupon_cache.initialize_stock(event_id, 1000).
IssueSeed(r) ==
    /\ req[r].pc = "seed"
    /\ LET e == req[r].event_id
           out == initialize_stock(e, DEFAULT_STOCK)
       IN  /\ stock' = [stock EXCEPT ![e] = out.stock]
           /\ stockTtl' = [stockTtl EXCEPT ![e] = out.ttl]
           /\ hist' = Created(e, stock[e], out.stock)
           /\ req' = [req EXCEPT ![r].pc = "script", ![r].seeded = out.ret]
    /\ UNCHANGED <<mqVars, consVars, sideVars, coupon_issue_sha, participants, partTtl, kafka_producer,
                   log, adminCalls, uuid_next, admitted, faults, elapsed>>

\* An exception raised inside the handler's try block: `except Exception`
\* answers HTTP 500.
Raise(r, rq) ==
    [rq EXCEPT ![r].pc = "done", ![r].resp = Http500("Internal server error")]

\* uuid4, then the admission script through execute_lua_script (EVALSHA).
\* The cluster client routes EVALSHA by the slot of its keys and raises
\* when they are not all in one slot; the script is then not run and the
\* handler's `except Exception` answers HTTP 500.
IssueScript(r) ==
    /\ req[r].pc = "script"
    /\ LET coupon_id == Uuid4(uuid_next)
           out == CouponIssueScript(ScriptKeys(r), ScriptArgs(r, coupon_id))
           ok == out.reply[1] = 1
       IN  IF SameSlot(ScriptKeys(r))
           THEN /\ stock' = [stock EXCEPT ![out.se] = out.stock]
                /\ stockTtl' = [stockTtl EXCEPT ![out.se] = out.stockTtl]
                /\ participants' =
                       [participants EXCEPT ![out.pe] = out.participants]
                /\ partTtl' = [partTtl EXCEPT ![out.pe] = out.partTtl]
                /\ req' = [req EXCEPT ![r].coupon_id = coupon_id,
                                      ![r].result = out.reply,
                                      ![r].pc = IF ok THEN "publish" ELSE "read"]
                /\ admitted' = IF ok THEN Append(admitted, r) ELSE admitted
           ELSE /\ req' = Raise(r, [req EXCEPT ![r].coupon_id = coupon_id])
                /\ UNCHANGED <<kvVars, admitted>>
    /\ uuid_next' = uuid_next + 1
    /\ UNCHANGED <<mqVars, consVars, sideVars, coupon_issue_sha, kafka_producer, log, adminCalls, hist,
                   faults, elapsed>>

\* A success response that reports the stock read from the cache when
\* responding instead of the stock the script returned.
Respond_reads_cache(r, rq) ==
    [rq EXCEPT ![r].pc = "done",
               ![r].resp = SuccessResponse(req[r].result[3],
                                           IF stock[req[r].event_id] = None
                                           THEN 0
                                           ELSE Val(stock[req[r].event_id]))]

\* The response after the publish calls of the success branch.
Respond(r, rq) ==
    [rq EXCEPT ![r].pc = "done",
               ![r].resp = SuccessResponse(req[r].result[3], req[r].result[4])]

\* get_kafka_producer() builds the process-wide producer on first use; the
\* constructor raises when no broker can be reached, and the handler's
\* `except Exception` turns that into HTTP 500.
IssueProducerFails(r) ==
    /\ req[r].pc = "publish"
    /\ kafka_producer = "None"
    /\ faults < MaxFaults
    /\ faults' = faults + 1
    /\ req' = Raise(r, req)
    /\ UNCHANGED <<mqVars, consVars, sideVars, coupon_issue_sha, kvVars, kafka_producer, log, adminCalls,
                   uuid_next, admitted, hist, elapsed>>

\* get_kafka_producer() and publish_coupon_issued; the handler responds
\* right away unless the remaining stock calls for the exhaustion event.
IssuePublish(r, outcome) ==
    /\ req[r].pc = "publish"
    /\ FaultAllowed(outcome)
    /\ faults' = FaultsAfter(outcome)
    /\ kafka_producer' = "ready"
    /\ LET issued_coupon_id == req[r].result[3]
           remaining_stock == req[r].result[4]
           pub == publish_coupon_issued(req[r].user_id, req[r].event_id,
                                        issued_coupon_id, outcome)
           rq == [req EXCEPT ![r].published = pub.ret]
       IN  /\ log' = pub.log
           /\ req' = IF pub.ret = "raised"
                     THEN Raise(r, rq)
                     ELSE IF remaining_stock <= 0
                     THEN [rq EXCEPT ![r].pc = "exhausted"]
                     ELSE Respond(r, rq)
    /\ UNCHANGED <<mqVars, consVars, sideVars, coupon_issue_sha, kvVars, adminCalls, uuid_next, admitted,
                   hist, elapsed>>

\* remaining_stock <= 0: publish_stock_exhausted, its result ignored.
IssueExhausted(r, outcome) ==
    /\ req[r].pc = "exhausted"
    /\ FaultAllowed(outcome)
    /\ faults' = FaultsAfter(outcome)
    /\ LET pub == publish_stock_exhausted(req[r].event_id, req[r].result[4],
                                          outcome)
       IN  /\ log' = pub.log
           /\ req' = IF pub.ret = "raised" THEN Raise(r, req) ELSE Respond(r, req)
    /\ UNCHANGED <<mqVars, consVars, sideVars, coupon_issue_sha, kvVars, kafka_producer, adminCalls,
                   uuid_next, admitted, hist, elapsed>>

\* A refusal branch that publishes the exhaustion event before answering.
IssueRead_publishes(r) ==
    /\ req[r].pc = "read"
    /\ req' = [req EXCEPT ![r].pc = "done",
                          ![r].resp = FailureResponse(req[r].result[2],
                                                      get_stock(req[r].event_id))]
    /\ log' = Append(log, ExhaustedMessage(req[r].event_id, 0))
    /\ UNCHANGED <<mqVars, consVars, sideVars, coupon_issue_sha, kvVars, kafka_producer, adminCalls,
                   uuid_next, admitted, hist, faults, elapsed>>

\* The refusal branch: a second get_stock, then the structured failure.
IssueRead(r) ==
    /\ req[r].pc = "read"
    /\ req' = [req EXCEPT ![r].pc = "done",
                          ![r].resp = FailureResponse(req[r].result[2],
                                                      get_stock(req[r].event_id))]
    /\ UNCHANGED <<mqVars, consVars, sideVars, coupon_issue_sha, kvVars, kafka_producer, log, adminCalls,
                   uuid_next, admitted, hist, faults, elapsed>>

\* ------------------------------------------------- initialize_event_stock
\* POST /admin/events/{event_id}/stock: one initialize_stock call.
AdminInit(e, n) ==
    /\ Len(adminCalls) < MaxAdmin
    /\ LET out == initialize_stock(e, n)
       IN  /\ stock' = [stock EXCEPT ![e] = out.stock]
           /\ stockTtl' = [stockTtl EXCEPT ![e] = out.ttl]
           /\ hist' = Created(e, stock[e], out.stock)
           /\ adminCalls' = Append(adminCalls,
                  [event_id |-> e, initial_stock |-> n, ret |-> out.ret,
                   reseed |-> (hist[e].total # None /\ Truthy(out.ret)),
                   message |-> IF Truthy(out.ret)
                               THEN "Stock initialized successfully"
                               ELSE "Stock already exists for this event"])
    /\ UNCHANGED <<mqVars, consVars, sideVars, coupon_issue_sha, participants, partTtl, kafka_producer,
                   log, req, uuid_next, admitted, faults, elapsed>>

\* ------------------------------------------------------------ key expiry
\* The TTL of a key that has no expiry set (what the TTL command reports).
NoExpiry == -1

\* A key with the given TTL is still there d seconds later.
Survives(ttl, d) == ttl = NoExpiry \/ ttl > d

\* The TTL d seconds later; 0 for a key that is gone.
After(ttl, d) == IF ttl = NoExpiry THEN ttl ELSE IF ttl > d THEN ttl - d ELSE 0

\* d seconds pass: every key's TTL runs down, and a key whose TTL is used up
\* is gone.
Elapse(d) ==
    /\ elapsed < MaxElapse
    /\ elapsed' = elapsed + 1
    /\ \E e \in AllEvents : stockTtl[e] > 0 \/ partTtl[e] > 0
    /\ stockTtl' = [e \in AllEvents |-> After(stockTtl[e], d)]
    /\ partTtl' = [e \in AllEvents |-> After(partTtl[e], d)]
    /\ stock' = [e \in AllEvents |-> IF Survives(stockTtl[e], d) THEN stock[e] ELSE None]
    /\ participants' =
          [e \in AllEvents |-> IF Survives(partTtl[e], d) THEN participants[e] ELSE {}]
    /\ UNCHANGED <<mqVars, consVars, sideVars, coupon_issue_sha, kafka_producer, log, req, adminCalls,
                   uuid_next, admitted, hist, faults>>

ElapseSteps == {TTL_STOCK \div 2, TTL_STOCK}

\* ---------------------------------------------------------------- consumer
issueVars == <<coupon_issue_sha, kvVars, kafka_producer, req, adminCalls,
               uuid_next, admitted, hist, faults, elapsed>>

\* The offsets lo+1 .. lo+n, in order.
Offsets(lo, n) == [k \in 1..n |-> lo + k]

\* consume_events: one poll returns the next n records of the partition and
\* moves the fetch position past them. (An empty poll leaves everything as
\* it is.)
Poll(n) ==
    /\ consumer.pc = "poll"
    /\ position + n <= Len(log)
    /\ consumer' = [Polling EXCEPT !.pc = "process",
                                   !.events = Offsets(position, n)]
    /\ position' = position + n
    /\ UNCHANGED <<mqVars, issueVars, sideVars, log, committed, db, pendingFail,
                   dbFaults, restarts>>

\* One turn of `for event in events`: process_event and the success count.
\* The KeyError of process_event is caught nowhere inside the loop: it ends
\* run().
Process(dbError) ==
    /\ consumer.pc = "process"
    /\ dbError => dbFaults < MaxDbFaults
    /\ dbFaults' = IF dbError THEN dbFaults + 1 ELSE dbFaults
    /\ LET offset == consumer.events[consumer.i]
           out == process_event(db, log[offset], dbError)
       IN  IF RaisesKeyError(log[offset])
           THEN /\ db' = db
                /\ consumer' = Stopped
                /\ pendingFail' = pendingFail \cup {offset}
           ELSE /\ db' = out.db
                /\ consumer' = [consumer EXCEPT
                       !.success_count = IF out.ret THEN @ + 1 ELSE @,
                       !.i = @ + 1,
                       !.pc = IF consumer.i = Len(consumer.events)
                              THEN "decide" ELSE "process"]
                /\ pendingFail' = IF out.ret THEN pendingFail \ {offset}
                                             ELSE pendingFail \cup {offset}
    /\ UNCHANGED <<mqVars, issueVars, sideVars, log, position, committed, restarts>>

\* KafkaEventConsumer.commit: the group's offset becomes the fetch position;
\* an exception is logged and swallowed.
commit(commitOk) == IF commitOk THEN position ELSE committed

\* A loop that commits after every batch, whatever the success count.
Decide_commits_always(commitOk) ==
    /\ consumer.pc = "decide"
    /\ committed' = commit(commitOk)
    /\ consumer' = [Polling EXCEPT !.commit = "called"]
    /\ UNCHANGED <<mqVars, issueVars, sideVars, log, position, db, pendingFail, dbFaults,
                   restarts>>

\* success_count == len(events): commit; otherwise log the failure. Then the
\* next iteration.
Decide(commitOk) ==
    /\ consumer.pc = "decide"
    /\ IF consumer.success_count = Len(consumer.events)
       THEN /\ committed' = commit(commitOk)
            /\ consumer' = [Polling EXCEPT !.commit = "called"]
       ELSE /\ commitOk
            /\ committed' = committed
            /\ consumer' = Polling
    /\ UNCHANGED <<mqVars, issueVars, sideVars, log, position, db, pendingFail,
                   dbFaults, restarts>>

\* The consumer process is started again (main): a new KafkaConsumer of the
\* same group resumes from the committed offset.
Restart ==
    /\ restarts < MaxRestarts
    /\ restarts' = restarts + 1
    /\ position' = committed
    /\ consumer' = Polling
    /\ UNCHANGED <<mqVars, issueVars, sideVars, log, committed, db, pendingFail,
                   dbFaults>>

Consumer ==
    \/ \E n \in 1..MaxPoll : Poll(n)
    \/ \E dbError \in BOOLEAN : Process(dbError)
    \/ \E commitOk \in BOOLEAN : Decide(commitOk)
    \/ Restart

\* ------------------------------------------------- the topic's publishers
Coupons == {"c1", "c2"}

\* The records a publisher of the topic can append for the modelled users,
\* events and coupon ids.
Records ==
    {IssuedMessage(u, e, c) : u \in Users, e \in Events, c \in Coupons}
    \cup {RedeemedMessage(u, e, c) : u \in Users, e \in Events, c \in Coupons}
    \cup {ExhaustedMessage(e, 0) : e \in Events}

\* A publish_coupon_issued, publish_coupon_redeemed or publish_stock_exhausted
\* call of any producer of the topic is acknowledged.
Produce(rec) ==
    /\ Len(log) < MaxLog
    /\ log' = Append(log, rec)
    /\ UNCHANGED <<mqVars, issueVars, sideVars, consVars>>

\* A row of coupon_events is created for the event (the event master data
\* is maintained outside the consumer).
InsertCouponEvent(e) ==
    /\ db.coupon_events[e] = None
    /\ db' = [db EXCEPT !.coupon_events[e] =
                 Some([remaining_stock |-> MaxStock, is_active |-> TRUE])]
    /\ UNCHANGED <<mqVars, issueVars, sideVars, log, position, committed, consumer, pendingFail,
                   dbFaults, restarts>>

\* ------------------------------------------------------ get_coupon_status
\* GET /coupons/status/{event_id}, first Redis call: coupon_cache.get_stock.
\* kvError - the call raises; `except Exception` answers HTTP 500.
StatusStart(e, kvError) ==
    /\ statusReq.pc \in {"idle", "done"}
    /\ statusReq.n < MaxStatus
    /\ statusReq' =
          IF kvError
          THEN [pc |-> "done", n |-> statusReq.n + 1, event_id |-> e,
                current_stock |-> None, resp |-> StatusHttp500]
          ELSE [pc |-> "count", n |-> statusReq.n + 1, event_id |-> e,
                current_stock |-> get_stock(e), resp |-> NoStatusResponse]
    /\ UNCHANGED <<mqVars, issueVars, consVars, log, userCoupon, cacheCall>>

\* Second Redis call: SCARD of the participants key; then the response, an
\* absent stock reported as 0.
StatusCount(kvError) ==
    /\ statusReq.pc = "count"
    /\ LET e == statusReq.event_id
           participant_count == Cardinality(participants[e])
           current_stock == IF statusReq.current_stock = None
                            THEN 0 ELSE Val(statusReq.current_stock)
       IN  statusReq' =
             [statusReq EXCEPT
                !.pc = "done",
                !.resp = IF kvError
                         THEN StatusHttp500
                         ELSE EventStatusResponse(e, current_stock,
                                                  participant_count)]
    /\ UNCHANGED <<mqVars, issueVars, consVars, log, userCoupon, cacheCall>>

\* ------------------------------------------------- direct cache-layer calls
\* The operations of CouponCache called directly, one call after the other.
\* fault - the Redis command of the call raises (connection lost, timeout,
\* node down); the command then has no effect.

\* The call returned ret.
Returned(op, e, u, ret) ==
    [n |-> cacheCall.n + 1, op |-> op, event_id |-> e, user_id |-> u,
     outcome |-> "returned", ret |-> ret, fault |-> FALSE]

\* The call raised the Redis error to its caller.
Raised(op, e, u) ==
    [n |-> cacheCall.n + 1, op |-> op, event_id |-> e, user_id |-> u,
     outcome |-> "raised", ret |-> None, fault |-> TRUE]

\* The call returned although a Redis command of it had failed.
Swallowed(op, e, u) ==
    [n |-> cacheCall.n + 1, op |-> op, event_id |-> e, user_id |-> u,
     outcome |-> "returned", ret |-> None, fault |-> TRUE]

\* The history of the stock keys after the counter of e was given value n by
\* a plain SET.
Overwritten(e, n) ==
    [hist EXCEPT ![e].total = Some(n),
                 ![e].configured = IF @ = None THEN Some(n) ELSE @,
                 ![e].epochStart = Len(admitted)]

\* coupon_cache.initialize_stock(e, n)
CacheInitializeStock(e, n, fault) ==
    /\ cacheCall.n < MaxCacheCalls
    /\ LET out == initialize_stock(e, n)
       IN  IF fault
           THEN /\ cacheCall' = Raised("initialize_stock", e, "")
                /\ UNCHANGED <<stock, stockTtl, hist>>
           ELSE /\ cacheCall' = Returned("initialize_stock", e, "", Some(out.ret))
                /\ stock' = [stock EXCEPT ![e] = out.stock]
                /\ stockTtl' = [stockTtl EXCEPT ![e] = out.ttl]
                /\ hist' = Created(e, stock[e], out.stock)
    /\ UNCHANGED <<mqVars, consVars, statusReq, userCoupon, coupon_issue_sha,
                   participants, partTtl, kafka_producer, log, req, adminCalls,
                   uuid_next, admitted, faults, elapsed>>

\* The variables no read of the cache layer changes.
readVars == <<mqVars, issueVars, consVars, log, statusReq, userCoupon>>

\* coupon_cache.get_stock(e): a Redis error is neither ValueError nor
\* TypeError, so it leaves the method.
CacheGetStock(e, fault) ==
    /\ cacheCall.n < MaxCacheCalls
    /\ cacheCall' = IF fault THEN Raised("get_stock", e, "")
                    ELSE Returned("get_stock", e, "", get_stock(e))
    /\ UNCHANGED readVars

\* coupon_cache.set_stock(e, n): SET key n EX TTL_STOCK.
CacheSetStock(e, n, fault) ==
    /\ cacheCall.n < MaxCacheCalls
    /\ IF fault
       THEN /\ cacheCall' = Raised("set_stock", e, "")
            /\ UNCHANGED <<stock, stockTtl, hist>>
       ELSE /\ cacheCall' = Returned("set_stock", e, "", Some("True"))
            /\ stock' = [stock EXCEPT ![e] = Some(n)]
            /\ stockTtl' = [stockTtl EXCEPT ![e] = TTL_STOCK]
            /\ hist' = Overwritten(e, n)
    /\ UNCHANGED <<mqVars, consVars, statusReq, userCoupon, coupon_issue_sha,
                   participants, partTtl, kafka_producer, log, req, adminCalls,
                   uuid_next, admitted, faults, elapsed>>

\* coupon_cache.is_user_participated(e, u): bool(SISMEMBER).
CacheIsUserParticipated(e, u, fault) ==
    /\ cacheCall.n < MaxCacheCalls
    /\ cacheCall' = IF fault THEN Raised("is_user_participated", e, u)
                    ELSE Returned("is_user_participated", e, u,
                                  Some(u \in participants[e]))
    /\ UNCHANGED readVars

\* What the two commands of add_participant can do: both succeed; the SADD
\* raises; the SADD adds the member and the EXPIRE raises.
AddParticipantOutcomes == {"ok", "sadd_fails", "expire_fails"}

\* coupon_cache.add_participant(e, u): SADD, and EXPIRE when the member was
\* added. An EXPIRE that fails leaves the set with the expiry it had: none
\* when the SADD created the set.
CacheAddParticipant(e, u, kv) ==
    /\ cacheCall.n < MaxCacheCalls
    /\ LET result == IF u \in participants[e] THEN 0 ELSE 1
       IN  CASE kv = "sadd_fails" ->
                  /\ cacheCall' = Raised("add_participant", e, u)
                  /\ UNCHANGED <<participants, partTtl>>
             [] kv = "expire_fails" ->
                  /\ result > 0
                  /\ cacheCall' = Raised("add_participant", e, u)
                  /\ participants' = [participants EXCEPT ![e] = @ \cup {u}]
                  /\ partTtl' = [partTtl EXCEPT
                                   ![e] = IF participants[e] = {}
                                          THEN NoExpiry ELSE @]
             [] kv = "ok" ->
                  /\ cacheCall' = Returned("add_participant", e, u,
                                           Some(result > 0))
                  /\ participants' = [participants EXCEPT ![e] = @ \cup {u}]
                  /\ partTtl' = [partTtl EXCEPT
                                   ![e] = IF result > 0
                                          THEN TTL_USER_PARTICIPATION ELSE @]
    /\ UNCHANGED <<mqVars, consVars, statusReq, userCoupon, coupon_issue_sha, stock,
                   stockTtl, kafka_producer, log, req, adminCalls, uuid_next,
                   admitted, hist, faults, elapsed>>

\* coupon_cache.cache_user_coupon(u, e, c): SET key c EX. (The expiry of
\* the user-coupon keys is not modelled: no specification lets time pass
\* while one exists.)
CacheUserCoupon(u, e, c, fault) ==
    /\ cacheCall.n < MaxCacheCalls
    /\ IF fault
       THEN /\ cacheCall' = Raised("cache_user_coupon", e, u)
            /\ UNCHANGED userCoupon
       ELSE /\ cacheCall' = Returned("cache_user_coupon", e, u, Some("True"))
            /\ userCoupon' = [userCoupon EXCEPT ![<<u, e>>] = Some(c)]
    /\ UNCHANGED <<mqVars, issueVars, consVars, log, statusReq>>

\* coupon_cache.get_user_coupon(u, e): GET.
CacheGetUserCoupon(u, e, fault) ==
    /\ cacheCall.n < MaxCacheCalls
    /\ cacheCall' = IF fault THEN Raised("get_user_coupon", e, u)
                    ELSE Returned("get_user_coupon", e, u, userCoupon[<<u, e>>])
    /\ UNCHANGED readVars

\* The text of every user-coupon key the store holds.
UserCouponKeys ==
    {get_user_coupon_key(k[1], k[2]) : k \in {x \in Users \X AllEvents :
                                                userCoupon[x] # None}}

\* KEYS pattern, for a pattern with one "*": the key begins with the text
\* before the "*" and ends with the text after it.
GlobMatch(pattern, key) ==
    LET star == CHOOSE i \in 1..Len(pattern) : pattern[i] = "*"
        prefix == SubSeq(pattern, 1, star - 1)
        suffix == SubSeq(pattern, star + 1, Len(pattern))
    IN  /\ Len(key) >= Len(prefix) + Len(suffix)
        /\ SubSeq(key, 1, Len(prefix)) = prefix
        /\ SubSeq(key, Len(key) - Len(suffix) + 1, Len(key)) = suffix

\* f"coupon:user:*:{event_id}"
user_coupon_pattern(event_id) == <<"coupon:user:", "*", ":">> \o Text(event_id)

\* keys_to_delete of invalidate_event_cache, as a set.
keys_to_delete(event_id) ==
    {get_stock_key(event_id), get_participants_key(event_id)}
    \cup {k \in UserCouponKeys : GlobMatch(user_coupon_pattern(event_id), k)}

\* The cluster client sends one DEL per slot: what a delete removes is a set
\* of whole slots' keys.
WholeSlots(removed, keys) ==
    /\ removed \subseteq keys
    /\ \A k1 \in removed, k2 \in keys : SameSlot(<<k1, k2>>) => k2 \in removed

\* What the commands of invalidate_event_cache can do: all succeed; the KEYS
\* raises; a DEL raises, the DELs sent before it having removed their keys.
InvalidateOutcomes == {"ok", "keys_fails", "delete_fails"}

\* The store after the keys in removed are deleted.
Deleted(removed) ==
    /\ stock' = [x \in AllEvents |->
                   IF get_stock_key(x) \in removed THEN None ELSE stock[x]]
    /\ stockTtl' = [x \in AllEvents |->
                      IF get_stock_key(x) \in removed THEN 0 ELSE stockTtl[x]]
    /\ participants' = [x \in AllEvents |->
                          IF get_participants_key(x) \in removed
                          THEN {} ELSE participants[x]]
    /\ partTtl' = [x \in AllEvents |->
                     IF get_participants_key(x) \in removed
                     THEN 0 ELSE partTtl[x]]
    /\ userCoupon' = [k \in Users \X AllEvents |->
                        IF get_user_coupon_key(k[1], k[2]) \in removed
                        THEN None ELSE userCoupon[k]]

\* coupon_cache.invalidate_event_cache(e): KEYS, then DEL of the stock key,
\* the participants key and the keys found. `except Exception` logs a
\* failure and the method returns None as it does after a success.
InvalidateEventCache(e, kv) ==
    /\ cacheCall.n < MaxCacheCalls
    /\ CASE kv = "keys_fails" ->
              /\ cacheCall' = Swallowed("invalidate_event_cache", e, "")
              /\ UNCHANGED <<kvVars, userCoupon>>
         [] kv = "delete_fails" ->
              /\ cacheCall' = Swallowed("invalidate_event_cache", e, "")
              /\ \E removed \in SUBSET keys_to_delete(e) :
                    /\ removed # keys_to_delete(e)
                    /\ WholeSlots(removed, keys_to_delete(e))
                    /\ Deleted(removed)
         [] kv = "ok" ->
              /\ cacheCall' = Returned("invalidate_event_cache", e, "", None)
              /\ Deleted(keys_to_delete(e))
    /\ UNCHANGED <<mqVars, consVars, statusReq, coupon_issue_sha, kafka_producer, log,
                   req, adminCalls, uuid_next, admitted, hist, faults, elapsed>>

\* The coupon ids the direct callers cache.
CachedCoupons == {"c1"}

CacheLayer ==
    \/ \E e \in AllEvents, n \in StockValues, fault \in BOOLEAN :
          CacheInitializeStock(e, n, fault)
    \/ \E e \in AllEvents, fault \in BOOLEAN : CacheGetStock(e, fault)
    \/ \E e \in AllEvents, n \in StockValues, fault \in BOOLEAN :
          CacheSetStock(e, n, fault)
    \/ \E e \in AllEvents, u \in Users, fault \in BOOLEAN :
          CacheIsUserParticipated(e, u, fault)
    \/ \E e \in AllEvents, u \in Users, kv \in AddParticipantOutcomes :
          CacheAddParticipant(e, u, kv)
    \/ \E u \in Users, e \in AllEvents, c \in CachedCoupons, fault \in BOOLEAN :
          CacheUserCoupon(u, e, c, fault)
    \/ \E u \in Users, e \in AllEvents, fault \in BOOLEAN :
          CacheGetUserCoupon(u, e, fault)
    \/ \E e \in AllEvents, kv \in InvalidateOutcomes :
          InvalidateEventCache(e, kv)

\* The cache layer alone, its operations called one after the other.
SpecCache == Init /\ [][CacheLayer]_vars

\* ------------------------------------------------ SimpleMessageQueue calls
\* The variables the queue's calls leave alone.
notMqVars == <<issueVars, consVars, sideVars, log>>

\* LREM key 1 value: the list without the first element equal to value,
\* counted from the head; the list itself when no element is equal.
LRem1(list, value) ==
    LET hits == {i \in 1..Len(list) : list[i] = value}
        first == CHOOSE i \in hits : \A j \in hits : i <= j
    IN  IF hits = {} THEN list
        ELSE SubSeq(list, 1, first - 1) \o SubSeq(list, first + 1, Len(list))

\* `for msg_json in messages: if msg["id"] == message_id`: the first element
\* of the LRANGE result, from the head, whose message has the id; None when
\* there is none.
FindById(messages, message_id) ==
    LET hits == {i \in 1..Len(messages) : loads(messages[i]).id = message_id}
        first == CHOOSE i \in hits : \A j \in hits : i <= j
    IN  IF hits = {} THEN None ELSE Some(messages[first])

\* A publish that pushes to the end of the main queue consume pops from.
QPublish_rpush(w) ==
    /\ mqWorker[w].pc = "idle"
    /\ mqHist.published < MaxMessages
    /\ LET message_id == Uuid4(mqHist.published + 1)
           message == [id |-> message_id, event_type |-> "coupon_issued",
                       retry_count |-> 0, failed_at |-> None]
       IN  /\ mq' = [mq EXCEPT !.pending = @ \o <<dumps(message)>>]
           /\ mqHist' = [mqHist EXCEPT !.published = @ + 1]
    /\ UNCHANGED <<mqWorker, notMqVars>>

\* publish(event_type, data): a new message with retry_count 0 is LPUSHed
\* to the main queue.
QPublish(w) ==
    /\ mqWorker[w].pc = "idle"
    /\ mqHist.published < MaxMessages
    /\ LET message_id == Uuid4(mqHist.published + 1)
           message == [id |-> message_id, event_type |-> "coupon_issued",
                       retry_count |-> 0, failed_at |-> None]
       IN  /\ mq' = [mq EXCEPT !.pending = <<dumps(message)>> \o @]
           /\ mqHist' = [mqHist EXCEPT !.published = @ + 1]
    /\ UNCHANGED <<mqWorker, notMqVars>>

\* A consume that reads the tail of the main queue and pushes it to the
\* processing queue without popping it.
QConsume_copies(w) ==
    /\ mqWorker[w].pc = "idle"
    /\ IF mq.pending = <<>>
       THEN /\ mqWorker' = [mqWorker EXCEPT ![w].got = None]
            /\ UNCHANGED <<mq, mqHist>>
       ELSE LET result == mq.pending[Len(mq.pending)]
            IN  /\ mq' = [mq EXCEPT !.processing = <<result>> \o @]
                /\ mqWorker' = [mqWorker EXCEPT ![w].got = Some(loads(result))]
                /\ mqHist' = [mqHist EXCEPT
                                !.deliveries[loads(result).id] = @ + 1]
    /\ UNCHANGED notMqVars

\* consume(): BRPOPLPUSH main processing timeout, one Redis command: the
\* tail of the main queue becomes the head of the processing queue and is
\* returned; None when the main queue stays empty for the timeout.
QConsume(w) ==
    /\ mqWorker[w].pc = "idle"
    /\ IF mq.pending = <<>>
       THEN /\ mqWorker' = [mqWorker EXCEPT ![w].got = None]
            /\ UNCHANGED <<mq, mqHist>>
       ELSE LET result == mq.pending[Len(mq.pending)]
            IN  /\ mq' = [mq EXCEPT
                            !.pending = SubSeq(@, 1, Len(@) - 1),
                            !.processing = <<result>> \o @]
                /\ mqWorker' = [mqWorker EXCEPT ![w].got = Some(loads(result))]
                /\ mqHist' = [mqHist EXCEPT
                                !.deliveries[loads(result).id] = @ + 1]
    /\ UNCHANGED notMqVars

\* acknowledge(message_id), first command: LRANGE processing 0 -1 and the
\* search for the id. Not found: the call returns False.
QAckRead(w, message_id) ==
    /\ mqWorker[w].pc = "idle"
    /\ LET found == FindById(mq.processing, message_id)
       IN  mqWorker' =
             IF found = None
             THEN [mqWorker EXCEPT ![w].ret = "False",
                                   ![w].message_id = message_id]
             ELSE [mqWorker EXCEPT ![w].pc = "ack_lrem",
                                   ![w].message_id = message_id,
                                   ![w].msg_json = found]
    /\ UNCHANGED <<mq, mqHist, notMqVars>>

\* acknowledge, second command: LREM processing 1 msg_json, its result not
\* looked at; the call returns True.
QAckRemove(w) ==
    /\ mqWorker[w].pc = "ack_lrem"
    /\ mq' = [mq EXCEPT !.processing = LRem1(@, Val(mqWorker[w].msg_json))]
    /\ mqWorker' = [mqWorker EXCEPT ![w].pc = "idle", ![w].ret = "True",
                                    ![w].msg_json = None]
    /\ mqHist' = [mqHist EXCEPT !.acked = @ \cup {mqWorker[w].message_id}]
    /\ UNCHANGED notMqVars

\* reject(message_id, max_retries), first command: LRANGE and the search.
QRejectRead(w, message_id, max_retries) ==
    /\ mqWorker[w].pc = "idle"
    /\ LET found == FindById(mq.processing, message_id)
       IN  mqWorker' =
             IF found = None
             THEN [mqWorker EXCEPT ![w].ret = "False",
                                   ![w].message_id = message_id,
                                   ![w].max_retries = max_retries]
             ELSE [mqWorker EXCEPT ![w].pc = "reject_lrem",
                                   ![w].message_id = message_id,
                                   ![w].max_retries = max_retries,
                                   ![w].msg_json = found]
    /\ UNCHANGED <<mq, mqHist, notMqVars>>

\* A reject that leaves the entry in the processing queue.
QRejectRemove_keeps(w) ==
    /\ mqWorker[w].pc = "reject_lrem"
    /\ mqWorker' = [mqWorker EXCEPT ![w].pc = "reject_push"]
    /\ UNCHANGED <<mq, mqHist, notMqVars>>

\* reject, second command: LREM processing 1 msg_json, its result not looked
\* at.
QRejectRemove(w) ==
    /\ mqWorker[w].pc = "reject_lrem"
    /\ mq' = [mq EXCEPT !.processing = LRem1(@, Val(mqWorker[w].msg_json))]
    /\ mqWorker' = [mqWorker EXCEPT ![w].pc = "reject_push"]
    /\ UNCHANGED <<mqHist, notMqVars>>

\* A reject that re-queues while retry_count <= max_retries.
QRejectPush_retries_inclusive(w) ==
    /\ mqWorker[w].pc = "reject_push"
    /\ LET msg == loads(Val(mqWorker[w].msg_json))
           retried == [msg EXCEPT !.retry_count = @ + 1]
           failed == [retried EXCEPT !.failed_at = Some("now")]
       IN  mq' = IF retried.retry_count <= mqWorker[w].max_retries
                 THEN [mq EXCEPT !.pending = <<dumps(retried)>> \o @]
                 ELSE [mq EXCEPT !.dead_letter = <<dumps(failed)>> \o @]
    /\ mqWorker' = [mqWorker EXCEPT ![w].pc = "idle", ![w].ret = "True",
                                    ![w].msg_json = None]
    /\ mqHist' = [mqHist EXCEPT
                    !.custom = IF mqWorker[w].max_retries = DEFAULT_MAX_RETRIES
                               THEN @ ELSE @ \cup {mqWorker[w].message_id}]
    /\ UNCHANGED notMqVars

\* reject, third command: retry_count += 1, then LPUSH to the main queue
\* when retry_count < max_retries, otherwise LPUSH to the dead-letter queue
\* with failed_at set; the call returns True.
QRejectPush(w) ==
    /\ mqWorker[w].pc = "reject_push"
    /\ LET msg == loads(Val(mqWorker[w].msg_json))
           retried == [msg EXCEPT !.retry_count = @ + 1]
           failed == [retried EXCEPT !.failed_at = Some("now")]
       IN  mq' = IF retried.retry_count < mqWorker[w].max_retries
                 THEN [mq EXCEPT !.pending = <<dumps(retried)>> \o @]
                 ELSE [mq EXCEPT !.dead_letter = <<dumps(failed)>> \o @]
    /\ mqWorker' = [mqWorker EXCEPT ![w].pc = "idle", ![w].ret = "True",
                                    ![w].msg_json = None]
    /\ mqHist' = [mqHist EXCEPT
                    !.custom = IF mqWorker[w].max_retries = DEFAULT_MAX_RETRIES
                               THEN @ ELSE @ \cup {mqWorker[w].message_id}]
    /\ UNCHANGED notMqVars

\* The values a single client passes for max_retries.
MaxRetriesValues == {1, DEFAULT_MAX_RETRIES}

\* publish and consume: one Redis command each.
QProduceConsume(w) ==
    \/ QPublish(w)
    \/ QConsume(w)

\* acknowledge and reject of worker w, command by command, with max_retries
\* drawn from retries.
QSettle(w, retries) ==
    \/ \E m \in MessageIds : QAckRead(w, m)
    \/ QAckRemove(w)
    \/ \E m \in MessageIds, r \in retries : QRejectRead(w, m, r)
    \/ QRejectRemove(w)
    \/ QRejectPush(w)

\* One client: its calls never overlap.
NextQueue ==
    \/ QProduceConsume("w1")
    \/ QSettle("w1", MaxRetriesValues)

SpecQueue == Init /\ [][NextQueue]_vars

\* Two consumers on the same queue, one of them also settling, with the
\* default max_retries, what was consumed.
NextQueueConsumers ==
    \/ QProduceConsume("w1")
    \/ QProduceConsume("w2")
    \/ QSettle("w1", {DEFAULT_MAX_RETRIES})

SpecQueueConsumers == Init /\ [][NextQueueConsumers]_vars

\* The max_retries the two settling workers pass.
WorkerMaxRetries == 2

\* Two workers whose acknowledge and reject calls interleave command by
\* command.
NextQueueWorkers ==
    \/ QProduceConsume("w1")
    \/ QSettle("w1", {WorkerMaxRetries})
    \/ QSettle("w2", {WorkerMaxRetries})

SpecQueueWorkers == Init /\ [][NextQueueWorkers]_vars

\* ------------------------------------------------------- specifications
Issue ==
    \/ \E r \in Reqs, u \in Users, e \in Events : IssueStart(r, u, e)
    \/ \E r \in Reqs : IssueSeed(r)
    \/ \E r \in Reqs : IssueScript(r)
    \/ \E r \in Reqs : IssueProducerFails(r)
    \/ \E r \in Reqs, o \in BrokerOutcomes : IssuePublish(r, o)
    \/ \E r \in Reqs, o \in BrokerOutcomes : IssueExhausted(r, o)
    \/ \E r \in Reqs : IssueRead(r)

Admin == \E e \in Events, n \in StockValues : AdminInit(e, n)

Next == Issue \/ Admin

\* Issue requests and admin initialisations, no key ever expiring.
Spec == Init /\ [][Next]_vars

NextTTL == Issue \/ Admin \/ \E d \in ElapseSteps : Elapse(d)

\* The same with time passing, so that keys expire.
SpecTTL == Init /\ [][NextTTL]_vars

\* Requests and admin initialisations for any event id.
IssueCluster ==
    \/ \E r \in Reqs, u \in Users, e \in AllEvents : IssueStart(r, u, e)
    \/ \E r \in Reqs : IssueSeed(r)
    \/ \E r \in Reqs : IssueScript(r)
    \/ \E r \in Reqs : IssueProducerFails(r)
    \/ \E r \in Reqs, o \in BrokerOutcomes : IssuePublish(r, o)
    \/ \E r \in Reqs, o \in BrokerOutcomes : IssueExhausted(r, o)
    \/ \E r \in Reqs : IssueRead(r)

AdminCluster == \E e \in AllEvents, n \in StockValues : AdminInit(e, n)

NextCluster == IssueCluster \/ AdminCluster

\* Spec with the event id of a request drawn from AllEvents: ids whose keys
\* are in one slot and ids whose keys are not.
SpecCluster == Init /\ [][NextCluster]_vars

Status ==
    \/ \E e \in Events, kvError \in BOOLEAN : StatusStart(e, kvError)
    \/ \E kvError \in BOOLEAN : StatusCount(kvError)

NextStatus == Issue \/ Admin \/ Status

\* Spec with status requests running beside the issue requests.
SpecStatus == Init /\ [][NextStatus]_vars

NextConsumer ==
    \/ Consumer
    \/ \E rec \in Records : Produce(rec)
    \/ \E e \in Events : InsertCouponEvent(e)

\* The consumer against a topic that any publisher fills.
SpecConsumer == Init /\ [][NextConsumer]_vars

\* Records of other producers of the topic: one of a type the consumer has
\* no handler for, one whose envelope has no event_type and one whose
\* envelope has no data.
ForeignRecords ==
    {[event_type |-> "coupon_expired", version |-> "1.0", key |-> e,
      user_id |-> None, event_id |-> e, coupon_id |-> None,
      remaining_stock |-> None, redeemed_at |-> None] : e \in Events}
    \cup {[envelope |-> EnvelopeKeys \ {"event_type"}, version |-> "1.0",
           key |-> e, event_id |-> e] : e \in Events}
    \cup {[envelope |-> EnvelopeKeys \ {"data"}, version |-> "1.0",
           key |-> e, event_type |-> "coupon_issued"] : e \in Events}

NextConsumerAnyTopic ==
    \/ NextConsumer
    \/ \E rec \in ForeignRecords : Produce(rec)

\* The consumer against a topic that also holds records its own producer
\* would not write.
SpecConsumerAnyTopic == Init /\ [][NextConsumerAnyTopic]_vars

NextPipeline == Issue \/ Admin \/ Consumer

\* The issuance path and the consumer together: the topic holds what the
\* issue requests published.
SpecPipeline == Init /\ [][NextPipeline]_vars

\* The same with the scheduling the processes provide: a request handler
\* runs on to its response, and the consumer loop keeps polling, processing
\* and finishing its iterations.
FairPipeline ==
    /\ SpecPipeline
    /\ WF_vars(Issue)
    /\ WF_vars(\E n \in 1..MaxPoll : Poll(n))
    /\ WF_vars(\E dbError \in BOOLEAN : Process(dbError))
    /\ WF_vars(\E commitOk \in BOOLEAN : Decide(commitOk))

\* ================================================================ claims
Done(r) == req[r].pc = "done"

\* The caller got CouponResponse(success=True).
ReturnsSuccess(r) == Done(r) /\ req[r].resp.status = 200 /\ req[r].resp.success

\* The caller got the structured refusal of the given reason code.
ReturnsCode(r, code) ==
    /\ Done(r)
    /\ req[r].resp.status = 200
    /\ ~req[r].resp.success
    /\ req[r].resp.message = ErrorMessage(code)

\* The admission script admitted the request.
Admitted(r) == req[r].result # <<>> /\ req[r].result[1] = 1

SuccessesOf(e) == {r \in Reqs : ReturnsSuccess(r) /\ req[r].event_id = e}

\* An admin call created the counter of e after it had existed before.
AdminReseeded(e) ==
    \E i \in 1..Len(adminCalls) :
        adminCalls[i].event_id = e /\ adminCalls[i].reseed

ConfiguredStock(e) ==
    IF hist[e].configured = None THEN 0 ELSE Val(hist[e].configured)

\* C1: for every event, the number of issue requests that returned SUCCESS
\* never exceeds the stock the event was configured with (the stock its
\* counter was first created with, no admin having re-seeded it since).
C1_SuccessWithinConfiguredStock ==
    \A e \in Events :
        ~AdminReseeded(e) => Cardinality(SuccessesOf(e)) <= ConfiguredStock(e)

\* C2: for any user u and event e, when one attempt of u for e returned
\* SUCCESS then every other finished attempt of u for e returned
\* USER_ALREADY_PARTICIPATED (so at most one attempt returns SUCCESS).
C2_OneSuccessOthersAlreadyParticipated ==
    \A r1, r2 \in Reqs :
        (/\ r1 # r2
         /\ req[r1].user_id = req[r2].user_id
         /\ req[r1].event_id = req[r2].event_id
         /\ ReturnsSuccess(r1)
         /\ Done(r2))
        => ReturnsCode(r2, "USER_ALREADY_PARTICIPATED")

\* The counter of e was created by an admin call, once, and never since.
InitialisedByAdmin(e) ==
    /\ hist[e].configured # None
    /\ hist[e].total = hist[e].configured
    /\ \E i \in 1..Len(adminCalls) :
          /\ adminCalls[i].event_id = e
          /\ Truthy(adminCalls[i].ret)
          /\ ~adminCalls[i].reseed
          /\ adminCalls[i].initial_stock = Val(hist[e].configured)

\* Every request of the run has been answered, all for e, by distinct users.
AllIssuedOnceFor(e) ==
    /\ \A r \in Reqs : Done(r) /\ req[r].event_id = e
    /\ \A r1, r2 \in Reqs : r1 # r2 => req[r1].user_id # req[r2].user_id

\* C3: an event initialised with stock S, N >= S distinct users each issuing
\* once (the script being registered): exactly S requests return SUCCESS,
\* exactly N - S return NO_STOCK_AVAILABLE, and the final remaining stock
\* is 0.
C3_ExactlyStockSuccesses ==
    \A e \in Events :
        (/\ coupon_issue_sha = "sha"
         /\ InitialisedByAdmin(e)
         /\ AllIssuedOnceFor(e)
         /\ MaxReqs >= ConfiguredStock(e))
        => /\ Cardinality(SuccessesOf(e)) = ConfiguredStock(e)
           /\ Cardinality({r \in Reqs : ReturnsCode(r, "NO_STOCK_AVAILABLE")})
                = MaxReqs - ConfiguredStock(e)
           /\ stock[e] = Some(0)

\* C4: between admission steps, for every event e whose counter exists,
\* |Participants(e)| + remaining_stock(e) = total_stock(e) (the stock the
\* counter was created with), and an event without a counter has no
\* participants: no state shows a decrement without its participant, or the
\* reverse.
C4_ConservationEquation ==
    \A e \in Events :
        IF stock[e] = None
        THEN participants[e] = {}
        ELSE Cardinality(participants[e]) + Val(stock[e]) = Val(hist[e].total)

\* C4's case: one admission has committed, stock is left, and another request
\* is between its steps.
C4_Witness ==
    \E e \in Events, r \in Reqs :
        /\ stock[e] = Some(1)
        /\ Cardinality(participants[e]) = 1
        /\ req[r].pc = "script"

\* The step in which request r runs the admission script.
ScriptStep(r) == req[r].pc = "script" /\ req'[r].pc # "script"

\* The step in which request r, refused, reads the stock and responds.
ReadStep(r) == req[r].pc = "read" /\ req'[r].pc = "done"

AdmissionsSince(e) ==
    {i \in (hist[e].epochStart + 1)..Len(admitted) :
        req[admitted[i]].event_id = e}

\* C6: for an event whose counter was created with stock S and exists, the
\* k-th admission since then was answered by the script with SUCCESS and
\* remaining_stock = S - k, its response (when SUCCESS) carries that value,
\* the counter equals S minus the number of admissions, and a request was
\* answered NO_STOCK_AVAILABLE only when all S had been admitted.
C6_KthAdmissionLeavesSMinusK ==
    \A e \in Events :
        stock[e] # None =>
            LET S == Val(hist[e].total)
                adm == AdmissionsSince(e)
            IN  /\ Val(stock[e]) = S - Cardinality(adm)
                /\ \A i \in adm :
                      LET k == Cardinality({j \in adm : j <= i})
                          r == admitted[i]
                      IN  /\ req[r].result = <<1, "SUCCESS", req[r].coupon_id, S - k>>
                          /\ ReturnsSuccess(r) =>
                                req[r].resp.remaining_stock = Some(S - k)
                /\ \A r \in Reqs :
                      (req[r].event_id = e
                       /\ req[r].result = <<0, "NO_STOCK_AVAILABLE">>)
                      => Cardinality(adm) = S /\ stock[e] = Some(0)

\* C6's case: stock 2, two admissions answered with 1 and then 0.
C6_Witness ==
    \E e \in Events :
        /\ hist[e].total = Some(2)
        /\ Len(admitted) = 2
        /\ req[admitted[1]].resp.remaining_stock = Some(1)
        /\ req[admitted[2]].resp.remaining_stock = Some(0)
        /\ ReturnsSuccess(admitted[1]) /\ ReturnsSuccess(admitted[2])

\* The initialize_stock calls for e that reported "created": admin calls
\* and convenience seeds of issue requests.
CreatedByAdmin(e) ==
    {i \in 1..Len(adminCalls) :
        adminCalls[i].event_id = e /\ Truthy(adminCalls[i].ret)}

CreatedBySeed(e) ==
    {r \in Reqs : req[r].event_id = e /\ req[r].seeded = "True"}

\* The step in which an admin call is answered / a request seeds.
AdminStep == Len(adminCalls') = Len(adminCalls) + 1

SeedStep(r) == req[r].pc = "seed" /\ req'[r].pc = "script"

\* What one initialize_stock(e, n) call returning ret must have done.
SetIfAbsent(e, n, ret) ==
    /\ Truthy(ret) <=> stock[e] = None
    /\ stock'[e] = IF stock[e] = None THEN Some(n) ELSE stock[e]

C8_SafeUnderKeyExpiry ==
    /\ \A e \in Events :
          ~AdminReseeded(e) => Cardinality(SuccessesOf(e)) <= ConfiguredStock(e)
    /\ \A r1, r2 \in Reqs :
          (/\ r1 # r2
           /\ req[r1].user_id = req[r2].user_id
           /\ req[r1].event_id = req[r2].event_id)
          => ~(ReturnsSuccess(r1) /\ ReturnsSuccess(r2))

\* C9: once the admission script has returned SUCCESS, the request answers
\* success with the script's coupon id and remaining stock, whatever happens
\* in the publish step.
C9_AdmittedIsAnsweredSuccess ==
    \A r \in Reqs :
        (Admitted(r) /\ Done(r))
        => /\ ReturnsSuccess(r)
           /\ req[r].resp.coupon_id = Some(req[r].result[3])
           /\ req[r].resp.remaining_stock = Some(req[r].result[4])

\* The coupon_issued records of the log that match request r and the coupon
\* id it returned.
IssuedRecordsOf(r) ==
    {i \in 1..Len(log) :
        /\ log[i].event_type = "coupon_issued"
        /\ log[i].user_id = Some(req[r].user_id)
        /\ log[i].event_id = req[r].event_id
        /\ log[i].coupon_id = req[r].resp.coupon_id}

\* C10: for every request that returned SUCCESS and whose publish reported
\* no error, the log holds exactly one coupon_issued record with the
\* request's user, event and returned coupon id.
C10_PublishedSuccessHasOneRecord ==
    \A r \in Reqs :
        (ReturnsSuccess(r) /\ req[r].published = "True")
        => Cardinality(IssuedRecordsOf(r)) = 1

\* C10's case: two requests returned SUCCESS, one with its publish
\* acknowledged and one whose publish failed.
C10_Witness ==
    \E r1, r2 \in Reqs :
        /\ ReturnsSuccess(r1) /\ req[r1].published = "True"
        /\ ReturnsSuccess(r2) /\ req[r2].published = "False"

\* The offsets of the log that hold a record of the given type for event e.
RecordsOf(type, e) ==
    {i \in 1..Len(log) : log[i].event_type = type /\ log[i].event_id = e}

\* The place of the admission that assigned coupon id c in the admission
\* serial order.
AdmissionIndex(c) ==
    CHOOSE k \in 1..Len(admitted) : req[admitted[k]].coupon_id = c

\* C11: for every event, two coupon_issued records of the log stand in the
\* order in which the admission script committed their admissions.
C11_LogOrderIsAdmissionOrder ==
    \A e \in Events :
        \A i, j \in RecordsOf("coupon_issued", e) :
            i < j => AdmissionIndex(Val(log[i].coupon_id))
                       < AdmissionIndex(Val(log[j].coupon_id))

\* C12: an event initialised with stock S >= 1 by the admin, all requests
\* answered, S of them with SUCCESS and no broker fault in the run: the log
\* holds exactly S coupon_issued records and exactly one stock_exhausted
\* record keyed by the event, and the stock_exhausted record stands after
\* every coupon_issued record.
C12_ExhaustedOnceAfterAllIssued ==
    \A e \in Events :
        (/\ InitialisedByAdmin(e)
         /\ ConfiguredStock(e) >= 1
         /\ \A r \in Reqs : Done(r)
         /\ Cardinality(SuccessesOf(e)) = ConfiguredStock(e)
         /\ faults = 0)
        => /\ Cardinality(RecordsOf("coupon_issued", e)) = ConfiguredStock(e)
           /\ Cardinality(RecordsOf("stock_exhausted", e)) = 1
           /\ \A x \in RecordsOf("stock_exhausted", e) :
                 /\ log[x].key = e
                 /\ \A i \in RecordsOf("coupon_issued", e) : i < x

\* The offsets of the batch the consumer is working on.
Batch == {consumer.events[k] : k \in 1..Len(consumer.events)}

\* The step that ends an iteration of the consumer loop.
DecideStep ==
    consumer.pc = "decide" /\ consumer'.pc = "poll" /\ restarts' = restarts

\* C13: the iteration that ends a batch calls commit only if every record of
\* the batch was processed successfully, and then the committed offset
\* becomes the end of the batch (or stays, when the commit call fails); when
\* a record of the batch failed, the iteration ends without a commit call
\* and with the committed offset unchanged; and nothing but the end of an
\* iteration moves the committed offset.
C13_CommitOnlyWhenAllSucceeded ==
    [][/\ DecideStep =>
            IF Batch \cap pendingFail = {}
            THEN /\ consumer'.commit = "called"
                 /\ committed' \in {committed, position}
            ELSE /\ consumer'.commit = "none"
                 /\ committed' = committed
       /\ committed' # committed => DecideStep
      ]_vars

\* C13's case: a batch of two records with a failure among them has ended
\* without a commit.
C13_Witness ==
    /\ consumer.pc = "poll"
    /\ consumer.commit = "none"
    /\ position = 2
    /\ committed = 0
    /\ Cardinality(pendingFail) = 1

\* C14: the committed offset never lies at or past a record that failed and
\* has not been processed successfully since.
C14_CommittedNeverPassesFailedRecord ==
    \A offset \in pendingFail : committed < offset

\* The stores a delivery can start from: no rows, or the master rows of the
\* events and nothing else.
InitialStores ==
    {EmptyDb,
     [EmptyDb EXCEPT !.coupon_events =
         [e \in Events |-> Some([remaining_stock |-> MaxStock,
                                 is_active |-> TRUE])]]}

\* C15: for the log of the topic and every prefix of it, delivering the
\* prefix and then the whole log leaves the relational store as delivering
\* the whole log once does.
C15_ReplayingAPrefixChangesNothing ==
    \A d \in InitialStores, k \in 0..Len(log) :
        Replay(d, SubSeq(log, 1, k) \o log) = Replay(d, log)

\* C15's case in the running consumer: the topic holds one coupon_redeemed
\* record and coupon_usage holds two rows.
C15_Witness ==
    /\ Cardinality({i \in 1..Len(log) : log[i].event_type = "coupon_redeemed"}) = 1
    /\ Len(db.coupon_usage) = 2

\* The step in which the consumer handles the record at the given offset.
ProcessStep(offset) ==
    /\ consumer.pc = "process"
    /\ consumer.events[consumer.i] = offset
    /\ consumer'.pc \in {"process", "decide"}
    /\ consumer'.i = consumer.i + 1

\* C16: user_coupons never holds two rows with the same (user_id, event_id)
\* or the same coupon_id; and a coupon_issued record that hits a unique
\* constraint changes no table, counts as processed successfully, and a
\* batch of such records is committed like any successful batch.
C16_OneRowPerUserEventAndCoupon ==
    /\ [](\A r1, r2 \in db.user_coupons :
            (\/ r1.coupon_id = r2.coupon_id
             \/ r1.user_id = r2.user_id /\ r1.event_id = r2.event_id)
            => r1 = r2)
    /\ [][/\ \A offset \in 1..Len(log) :
               (/\ ProcessStep(offset)
                /\ log[offset].event_type = "coupon_issued"
                /\ dbFaults' = dbFaults
                /\ DuplicateEntry(db, Val(log[offset].coupon_id),
                                  Val(log[offset].user_id), log[offset].event_id))
               => /\ db' = db
                  /\ consumer'.success_count = consumer.success_count + 1
                  /\ offset \notin pendingFail'
          /\ (DecideStep /\ consumer.success_count = Len(consumer.events))
               => consumer'.commit = "called"
         ]_vars

\* C16's case: two coupon_issued records for one (user, event) with different
\* coupon ids were delivered, one row is stored, and the batch holding the
\* duplicate was committed.
C16_Witness ==
    /\ Len(log) = 2
    /\ log[1].event_type = "coupon_issued" /\ log[2].event_type = "coupon_issued"
    /\ log[1].user_id = log[2].user_id
    /\ log[1].coupon_id # log[2].coupon_id
    /\ Cardinality(db.user_coupons) = 1
    /\ committed = 2
    /\ consumer.commit = "called"

\* user_coupons holds the coupon the request returned, for its user and event.
Recorded(r) ==
    \E row \in db.user_coupons :
        /\ Some(row.coupon_id) = req[r].resp.coupon_id
        /\ row.user_id = req[r].user_id
        /\ row.event_id = req[r].event_id

\* C17: every request answered SUCCESS is eventually recorded in user_coupons
\* with its coupon id, user and event, whether or not its coupon_issued
\* publish succeeded.
C17_SuccessEventuallyRecorded ==
    \A r \in Reqs : ReturnsSuccess(r) ~> Recorded(r)

RefusalCodes ==
    {"USER_ALREADY_PARTICIPATED", "NO_STOCK_AVAILABLE", "STOCK_NOT_INITIALIZED"}

\* The admission script refused the request.
Refused(r) == req[r].result # <<>> /\ req[r].result[1] = 0

\* C18: a request the script refused is answered HTTP 200 with success =
\* false, no coupon_id and the message of its reason code, never with an
\* error; and the remaining_stock of the answer is what get_stock reads from
\* the cache in the responding step.
C18_RefusalIsStructuredResult ==
    /\ [](\A r \in Reqs :
            Refused(r) =>
                /\ req[r].result[2] \in RefusalCodes
                /\ req[r].pc \in {"read", "done"}
                /\ Done(r) => /\ req[r].resp.status = 200
                              /\ req[r].resp.success = FALSE
                              /\ req[r].resp.coupon_id = None
                              /\ req[r].resp.message = ErrorMessage(req[r].result[2]))
    /\ [][\A r \in Reqs :
            ReadStep(r) =>
                req'[r].resp.remaining_stock = get_stock(req[r].event_id)
         ]_vars

\* C18's case: with stock 1, one user was admitted and the next was answered
\* NO_STOCK_AVAILABLE with remaining_stock 0.
C18_Witness ==
    \E r \in Reqs :
        /\ ReturnsCode(r, "NO_STOCK_AVAILABLE")
        /\ req[r].resp.remaining_stock = Some(0)
        /\ Len(admitted) = 1

\* C19: while the admission script is not registered, every step of an issue
\* request ends the request with HTTP 500 "Lua script not available" and
\* changes no stock counter, no participant set and no TTL, and appends
\* nothing to the log; no request seeds, runs the script or publishes.
C19_NoScriptNoEffect ==
    /\ [](coupon_issue_sha = "None" =>
            /\ log = <<>>
            /\ admitted = <<>>
            /\ \A r \in Reqs :
                  /\ req[r].pc \in {"idle", "done"}
                  /\ req[r].seeded = "unset"
                  /\ Done(r) => req[r].resp = Http500("Lua script not available"))
    /\ [][(coupon_issue_sha = "None" /\ req' # req) =>
            /\ UNCHANGED kvVars
            /\ log' = log
         ]_vars

\* C19's case: the script is not registered, an admin has created the stock
\* of the event, and every request was answered HTTP 500.
C19_Witness ==
    /\ coupon_issue_sha = "None"
    /\ \E e \in Events : stock[e] # None /\ Val(stock[e]) > 0
    /\ \A r \in Reqs : Done(r) /\ req[r].resp.status = 500

\* No admin call has addressed event e.
NoAdminSeed(e) == \A i \in 1..Len(adminCalls) : adminCalls[i].event_id # e

\* C20: the first issue request against an event no admin has seeded, the
\* script being registered, is answered STOCK_NOT_INITIALIZED, admits nobody
\* and creates no stock counter.
C20_UnseededEventIsNotInitialized ==
    \A r \in Reqs :
        (/\ coupon_issue_sha = "sha"
         /\ Done(r)
         /\ \A q \in Reqs \ {r} : req[q].pc = "idle"
         /\ NoAdminSeed(req[r].event_id))
        => /\ ReturnsCode(r, "STOCK_NOT_INITIALIZED")
           /\ admitted = <<>>
           /\ participants[req[r].event_id] = {}
           /\ stock[req[r].event_id] = None

\* ------------------------------------------------------------------- C21
\* The keys the handler hands to the cluster client for request r.
ScriptCallOf(r) == req[r].pc = "script"

\* A key carries a hash tag: the cluster hashes a part of it, not all of it.
HasHashTag(key) == HashedPart(key) # key

\* C21: the stock key and the participants key of an event carry the same
\* hash tag, derived from the event id, so both are served by one slot: for
\* every script call, both keys have a hash tag and the hashed parts are
\* equal.
C21_KeysShareHashTag ==
    \A r \in Reqs :
        ScriptCallOf(r) =>
            /\ \A i \in 1..2 : HasHashTag(ScriptKeys(r)[i])
            /\ SameSlot(ScriptKeys(r))

\* ------------------------------------------------------------------- C22
\* The log of an exhausted event: two coupon_issued records and the
\* stock_exhausted record of the event.
ExhaustedEventLog(e) ==
    <<IssuedMessage("u1", e, "c1"), IssuedMessage("u2", e, "c2"),
      ExhaustedMessage(e, 0)>>

\* The coupon_events row of an event the consumer has deactivated.
Deactivated == Some([remaining_stock |-> 0, is_active |-> FALSE])

\* C22: processing a stock_exhausted record succeeds and leaves the
\* coupon_events row of its event with remaining_stock = 0 and is_active =
\* false (no database error occurring); and consuming the log of an
\* exhausted event twice leaves exactly two user_coupons rows for the event
\* and the event inactive.
C22_ExhaustedDeactivatesEvent ==
    /\ [][\A offset \in 1..Len(log) :
            (/\ ProcessStep(offset)
             /\ log[offset].event_type = "stock_exhausted"
             /\ dbFaults' = dbFaults)
            => /\ consumer'.success_count = consumer.success_count + 1
               /\ db'.coupon_events[log[offset].event_id] = Deactivated
         ]_vars
    /\ [](\A e \in Events :
            LET d == Replay(EmptyDb, ExhaustedEventLog(e) \o ExhaustedEventLog(e))
            IN  /\ Cardinality({row \in d.user_coupons : row.event_id = e}) = 2
                /\ d.coupon_events[e] = Deactivated)

\* ------------------------------------------------------------------- C23
\* The user_coupons row of the coupon a record names.
RowOf(d, offset) ==
    {row \in d.user_coupons : row.coupon_id = Val(log[offset].coupon_id)}

\* Both effects of the redemption at offset are stored by the step: the row
\* is marked used at the record's instant, one usage row is appended, and
\* nothing else changes.
RedemptionStored(offset) ==
    /\ \A row \in RowOf(db', offset) :
           /\ row.is_used
           /\ row.used_at = Some(fromisoformat(Val(log[offset].redeemed_at)))
    /\ db'.user_coupons \ RowOf(db', offset) = db.user_coupons \ RowOf(db, offset)
    /\ Cardinality(RowOf(db', offset)) = 1
    /\ Len(db'.coupon_usage) = Len(db.coupon_usage) + 1
    /\ SubSeq(db'.coupon_usage, 1, Len(db.coupon_usage)) = db.coupon_usage
    /\ db'.coupon_usage[Len(db'.coupon_usage)].coupon_id
           = Val(log[offset].coupon_id)
    /\ db'.coupon_events = db.coupon_events

\* C23: processing a coupon_redeemed record for a coupon that has a
\* user_coupons row either stores both effects (the row is marked used with
\* its used_at, one coupon_usage row is inserted) and counts as a success, or
\* stores neither and counts as a failure; without a database error it stores
\* both.
C23_RedemptionIsOneCommit ==
    [][\A offset \in 1..Len(log) :
          (/\ ProcessStep(offset)
           /\ log[offset].event_type = "coupon_redeemed"
           /\ RowOf(db, offset) # {})
          => /\ \/ /\ RedemptionStored(offset)
                   /\ consumer'.success_count = consumer.success_count + 1
                \/ /\ db' = db
                   /\ consumer'.success_count = consumer.success_count
             /\ dbFaults' = dbFaults => RedemptionStored(offset)
      ]_vars

\* C23's case: a redemption was processed; its row is marked used with its
\* used_at and one usage row is stored.
C23_Witness ==
    /\ \E row \in db.user_coupons : row.is_used /\ row.used_at # None
    /\ Len(db.coupon_usage) = 1
    /\ \E i \in 1..Len(log) : log[i].event_type = "coupon_redeemed"

\* ------------------------------------------------------------------- C24
\* C24: the script checks participation before stock: a script call for a
\* user who is in the participant set of the event (the stock key existing)
\* is answered USER_ALREADY_PARTICIPATED whatever the stock, also at 0 or
\* below; and a call answered NO_STOCK_AVAILABLE is for a user who is not in
\* the participant set.
C24_ParticipationBeforeStock ==
    [][\A r \in Reqs :
          (ScriptStep(r) /\ req'[r].result # <<>>) =>
              LET e == req[r].event_id
                  u == req[r].user_id
              IN  /\ (u \in participants[e] /\ stock[e] # None)
                        => req'[r].result = <<0, "USER_ALREADY_PARTICIPATED">>
                  /\ req'[r].result[2] = "NO_STOCK_AVAILABLE"
                        => /\ u \notin participants[e]
                           /\ Val(stock[e]) <= 0
      ]_vars

\* C24's case: a participant asked again when the stock was 0 and was answered
\* USER_ALREADY_PARTICIPATED; the counter is at 0.
C24_Witness ==
    \E r \in Reqs :
        /\ ReturnsCode(r, "USER_ALREADY_PARTICIPATED")
        /\ req[r].resp.remaining_stock = Some(0)
        /\ stock[req[r].event_id] = Some(0)
        /\ req[r].user_id \in participants[req[r].event_id]

\* ------------------------------------------------------------------- C25
\* A step of an issue request (not an admin call, not the passing of time).
IssueRequestStep == \E r \in Reqs : req'[r] # req[r]

\* The stock of e has been initialised at some point of the run.
Initialised(e) == hist[e].configured # None

\* C25: an issue request never raises the stock of an initialised event: a
\* step of an issue request leaves the event with no counter or with a value
\* that is not above the value before the step, and a convenience seed that
\* finds a counter leaves it as it is.
C25_IssueNeverRaisesStock ==
    [][\A e \in Events :
          (IssueRequestStep /\ Initialised(e) /\ stock'[e] # None)
          => /\ stock[e] # None
             /\ Val(stock'[e]) <= Val(stock[e])
             /\ (\E r \in Reqs : SeedStep(r)) => stock'[e] = stock[e]
      ]_vars

\* ------------------------------------------------------------------- C26
\* The status request has been answered with a status report.
StatusReported == statusReq.pc = "done" /\ statusReq.resp.status = 200

\* C26: every status response for an event whose counter the request found,
\* created with total stock S, reports remaining_stock + total_participants
\* = S, also while issue requests run.
C26_StatusReportsConservation ==
    \A e \in Events :
        (/\ StatusReported
         /\ statusReq.event_id = e
         /\ statusReq.current_stock # None)
        => statusReq.resp.remaining_stock + statusReq.resp.total_participants
             = Val(hist[e].total)

\* ------------------------------------------------------------------- C27
\* The record at offset i is an earlier record of the event of the record at
\* offset j and its last processing failed.
EarlierUnapplied(i, j) ==
    /\ i < j
    /\ log[i].key = log[j].key
    /\ i \in pendingFail

\* C27: the relational writes of one event are applied in log order: a step
\* that stores the effect of a record changes the store only when no earlier
\* record of the same event is unapplied, also when the earlier record failed
\* in the same batch.
C27_WritesInLogOrderPerEvent ==
    [][\A j \in 1..Len(log) :
          (ProcessStep(j) /\ db' # db)
          => \A i \in 1..Len(log) : ~EarlierUnapplied(i, j)
      ]_vars

\* ------------------------------------------------------------------- C28
\* The last direct call of the cache layer was the given operation and it
\* returned to its caller.
LastCallReturned(op) == cacheCall.op = op /\ cacheCall.outcome = "returned"

\* No key of event e is in the store.
NoKeysOf(e) ==
    /\ stock[e] = None
    /\ participants[e] = {}
    /\ \A u \in Users : userCoupon[<<u, e>>] = None

\* C28: after invalidate_event_cache(e) returns, the stock key of e is
\* absent, its participant set is empty and no user-coupon key of e exists.
C28_InvalidateRemovesAllKeys ==
    LastCallReturned("invalidate_event_cache") => NoKeysOf(cacheCall.event_id)

\* ------------------------------------------------------------------- C29
\* C29: a cache-layer call during which a Redis command failed ends by
\* raising an error to its caller, never by returning.
C29_KvFailureIsSurfaced ==
    cacheCall.fault => cacheCall.outcome = "raised"

\* ------------------------------------------------------------------- C30
\* The step in which request r calls publish_stock_exhausted and ends.
ExhaustedStep(r) == req[r].pc = "exhausted" /\ req'[r].pc = "done"

\* C30: publish_coupon_issued and publish_stock_exhausted return True or
\* False and never raise: the result an issue request got from
\* publish_coupon_issued is True or False, and no request ends with an error
\* in its call of publish_stock_exhausted.
C30_PublishNeverRaises ==
    /\ [](\A r \in Reqs : req[r].published \in {"unset", "True", "False"})
    /\ [][\A r \in Reqs : ExhaustedStep(r) => req'[r].resp.status = 200]_vars

\* ---------------------------------------------------------------- C31
\* How many elements of a Redis list carry the message id.
CountOf(list, message_id) ==
    Cardinality({i \in 1..Len(list) : loads(list[i]).id = message_id})

\* The first message of a list with the id (the list has one).
MessageOf(list, message_id) == loads(Val(FindById(list, message_id)))

\* The step that ends a reject call of the single client.
RejectDone == mqWorker["w1"].pc = "reject_push" /\ mqWorker'["w1"].pc = "idle"

\* C31: reject(message_id) of a message in the processing queue removes it
\* from there and raises its retry_count by one; the message goes back on
\* the main queue exactly when the new retry_count is below max_retries and
\* to the dead-letter queue otherwise. A message rejected each time with the
\* default max_retries is delivered exactly DEFAULT_MAX_RETRIES times and
\* then rests in the dead-letter queue.
C31_RejectRetriesThenDeadLetters ==
    /\ [](\A m \in MessageIds :
            /\ m \notin mqHist.custom =>
                 mqHist.deliveries[m] <= DEFAULT_MAX_RETRIES
            /\ (m \notin mqHist.custom /\ CountOf(mq.dead_letter, m) > 0) =>
                 /\ mqHist.deliveries[m] = DEFAULT_MAX_RETRIES
                 /\ MessageOf(mq.dead_letter, m).retry_count
                      = DEFAULT_MAX_RETRIES
                 /\ CountOf(mq.pending, m) + CountOf(mq.processing, m) = 0)
    /\ [][RejectDone =>
            LET m == mqWorker["w1"].message_id
                before == loads(Val(mqWorker["w1"].msg_json))
                requeued == before.retry_count + 1 < mqWorker["w1"].max_retries
                target == IF requeued THEN mq'.pending ELSE mq'.dead_letter
            IN  /\ CountOf(mq'.processing, m) = 0
                /\ CountOf(mq'.pending, m) = (IF requeued THEN 1 ELSE 0)
                /\ CountOf(mq'.dead_letter, m) = (IF requeued THEN 0 ELSE 1)
                /\ MessageOf(target, m).retry_count = before.retry_count + 1
                /\ mqWorker'["w1"].ret = "True"]_vars

\* C31 witness: a message that was rejected with the default max_retries
\* after each of its DEFAULT_MAX_RETRIES deliveries rests in the dead-letter
\* queue.
C31_Witness ==
    \E m \in MessageIds :
        /\ m \notin mqHist.custom
        /\ CountOf(mq.dead_letter, m) = 1
        /\ mqHist.deliveries[m] = DEFAULT_MAX_RETRIES
        /\ MessageOf(mq.dead_letter, m).failed_at # None

\* ---------------------------------------------------------------- C32
\* A step in which a consume call hands out a message.
ConsumeStep == mqHist'.deliveries # mqHist.deliveries

\* C32: consume moves a message from the main queue to the processing queue
\* in one atomic step; with concurrent consumers each pending message is
\* handed to exactly one consumer, and across the step the message is never
\* in both queues or in neither.
C32_ConsumeMovesAtomically ==
    /\ [](mqWorker["w1"].pc = "idle" =>
            \A m \in MessageIds :
               /\ CountOf(mq.pending, m) + CountOf(mq.processing, m) <= 1
               /\ CountOf(mq.pending, m) = 1 =>
                    mqHist.deliveries[m] = MessageOf(mq.pending, m).retry_count
               /\ CountOf(mq.processing, m) = 1 =>
                    mqHist.deliveries[m]
                      = MessageOf(mq.processing, m).retry_count + 1)
    /\ [][ConsumeStep =>
            LET handed == mq.pending[Len(mq.pending)]
                takers == {w \in QWorkers : mqWorker'[w] # mqWorker[w]}
            IN  /\ mq.pending # <<>>
                /\ mq'.pending = SubSeq(mq.pending, 1, Len(mq.pending) - 1)
                /\ mq'.processing = <<handed>> \o mq.processing
                /\ mq'.dead_letter = mq.dead_letter
                /\ Cardinality(takers) = 1
                /\ \A w \in takers : mqWorker'[w].got = Some(loads(handed))
                /\ \A m \in MessageIds :
                     /\ mqHist'.deliveries[m] - mqHist.deliveries[m]
                          = (IF m = loads(handed).id THEN 1 ELSE 0)
                     /\ CountOf(mq'.pending, m) + CountOf(mq'.processing, m)
                          = CountOf(mq.pending, m) + CountOf(mq.processing, m)
           ]_vars

\* C32 witness: two consumers each hold a different message, and both
\* messages are in the processing queue and not in the main queue.
C32_Witness ==
    /\ mqWorker["w1"].got # None
    /\ mqWorker["w2"].got # None
    /\ Val(mqWorker["w1"].got).id # Val(mqWorker["w2"].got).id
    /\ \A w \in QWorkers :
         /\ CountOf(mq.processing, Val(mqWorker[w].got).id) = 1
         /\ CountOf(mq.pending, Val(mqWorker[w].got).id) = 0

\* ---------------------------------------------------------------- C33
\* The admissions that assigned the coupon id of the record at offset i to
\* the record's user and event.
AdmissionsOf(i) ==
    {k \in 1..Len(admitted) :
        /\ Some(req[admitted[k]].coupon_id) = log[i].coupon_id
        /\ Some(req[admitted[k]].user_id) = log[i].user_id
        /\ req[admitted[k]].event_id = log[i].event_id}

\* C33: no event is published for a refused request: a request the script
\* refused appends neither a coupon_issued nor a stock_exhausted record, and
\* every coupon_issued record of the log corresponds to exactly one
\* committed admission.
C33_RefusalPublishesNothing ==
    /\ [](/\ \A i \in 1..Len(log) :
               log[i].event_type = "coupon_issued"
               => Cardinality(AdmissionsOf(i)) = 1
          /\ \A r \in Reqs :
               Refused(r) =>
                   \A i \in 1..Len(log) :
                       log[i].coupon_id # Some(req[r].coupon_id))
    /\ [][\A r \in Reqs :
            (req'[r] # req[r] /\ req'[r].result # <<>>
               /\ req'[r].result[1] = 0)
            => log' = log]_vars

\* C33 witness: one request was admitted and its coupon_issued record is the
\* whole log, while another request was refused and has been answered.
C33_Witness ==
    \E r1, r2 \in Reqs :
        /\ Admitted(r1) /\ Done(r1)
        /\ Refused(r2) /\ Done(r2)
        /\ Len(log) = 1
        /\ log[1].event_type = "coupon_issued"
        /\ log[1].coupon_id = Some(req[r1].coupon_id)

\* ---------------------------------------------------------------- C34
\* A step of invalidate_event_cache.
InvalidateStep == cacheCall'.n # cacheCall.n /\ cacheCall'.op = "invalidate_event_cache"

\* The keys of event x are what they were before the step.
KeysUnchanged(x) ==
    /\ stock'[x] = stock[x]
    /\ stockTtl'[x] = stockTtl[x]
    /\ participants'[x] = participants[x]
    /\ partTtl'[x] = partTtl[x]
    /\ \A u \in Users : userCoupon'[<<u, x>>] = userCoupon[<<u, x>>]

\* C34: invalidate_event_cache(e) changes only the state of event e: the
\* stock key, the participants key and the user-coupon keys of every other
\* event are unchanged, whatever the event ids are.
C34_InvalidateTouchesOnlyItsEvent ==
    [][InvalidateStep =>
         \A x \in AllEvents \ {cacheCall'.event_id} : KeysUnchanged(x)]_vars

\* ---------------------------------------------------------------- C35
\* C35: a record that cannot be processed never stops the consumer: after a
\* handler failure, a record of unknown event_type or a record whose
\* envelope lacks event_type or data, the loop is still running and goes on
\* to poll and process later batches.
C35_UnprocessableNeverStopsLoop == consumer.pc # "stopped"

\* ---------------------------------------------------------------- C36
\* The ids published so far.
PublishedIds == {Uuid4(k) : k \in 1..mqHist.published}

\* How many entries of the three lists carry the id.
Copies(m) ==
    CountOf(mq.pending, m) + CountOf(mq.processing, m)
      + CountOf(mq.dead_letter, m)

\* A step of the single client that is an acknowledge or a reject call
\* returning at its search: no publish, no consume, no command of a call
\* under way.
SettleReturnsAtSearch ==
    /\ mqWorker["w1"].pc = "idle" /\ mqWorker'["w1"].pc = "idle"
    /\ mqWorker'["w1"] # mqWorker["w1"]
    /\ mqWorker'["w1"].got = mqWorker["w1"].got
    /\ mqHist' = mqHist

\* C36: message conservation for a single client: between its calls every
\* published, unacknowledged message is in exactly one of the main,
\* processing and dead-letter queues, exactly once; acknowledge or reject of
\* an id that is not in the processing queue returns False and changes no
\* queue.
C36_MessageConservation ==
    /\ [](mqWorker["w1"].pc = "idle" =>
            /\ \A m \in PublishedIds \ mqHist.acked : Copies(m) = 1
            /\ \A m \in MessageIds \ (PublishedIds \ mqHist.acked) :
                 Copies(m) = 0
            /\ Len(mq.pending) + Len(mq.processing) + Len(mq.dead_letter)
                 = Cardinality(PublishedIds \ mqHist.acked))
    /\ [][/\ SettleReturnsAtSearch =>
               /\ CountOf(mq.processing, mqWorker'["w1"].message_id) = 0
               /\ mqWorker'["w1"].ret = "False"
               /\ mq' = mq
          /\ (mqWorker["w1"].pc = "idle" /\ mqWorker'["w1"].pc # "idle") =>
               CountOf(mq.processing, mqWorker'["w1"].message_id) = 1
         ]_vars

\* C36 witness: of two published messages one was acknowledged and the other
\* rests in the dead-letter queue, and the client's last acknowledge or
\* reject, of an id not in the processing queue, returned False.
C36_Witness ==
    /\ mqHist.published = 2
    /\ Cardinality(mqHist.acked) = 1
    /\ Len(mq.dead_letter) = 1
    /\ mqWorker["w1"].pc = "idle"
    /\ mqWorker["w1"].ret = "False"
    /\ mqWorker["w1"].message_id \in PublishedIds

\* ---------------------------------------------------------------- C37
\* No worker is inside an acknowledge or reject call.
AllIdle == \A w \in QWorkers : mqWorker[w].pc = "idle"

\* The largest retry_count among the entries of the id, 0 when there are
\* none.
MaxRetryCount(m) ==
    LET all == mq.pending \o mq.processing \o mq.dead_letter
        counts == {loads(all[i]).retry_count :
                      i \in {j \in 1..Len(all) : loads(all[j]).id = m}}
    IN  IF counts = {} THEN 0
        ELSE CHOOSE c \in counts : \A d \in counts : d <= c

\* C37: concurrent acknowledge and reject for the same id, two workers, any
\* interleaving of their list-read, remove and push steps: the message is
\* never duplicated; it ends either acknowledged or in exactly one queue,
\* exactly once, and its retry_count is increased at most once per delivery.
C37_ConcurrentSettleKeepsOneCopy ==
    \A m \in PublishedIds :
        /\ Copies(m) <= 1
        /\ AllIdle => (IF m \in mqHist.acked THEN Copies(m) = 0
                                             ELSE Copies(m) = 1)
        /\ MaxRetryCount(m) <= mqHist.deliveries[m]

\* ---------------------------------------------------------------- C38
\* The ids of a list's entries from the one consume takes next to the one it
\* takes last (the list read from its tail).
ConsumeOrder(list) ==
    [i \in 1..Len(list) |-> loads(list[Len(list) + 1 - i]).id]

\* A step in which a rejected message is put back on the main queue.
RequeueStep ==
    /\ mqWorker["w1"].pc = "reject_push"
    /\ Len(mq'.pending) = Len(mq.pending) + 1

\* A step of publish.
PublishStep == mqHist'.published # mqHist.published

\* C38: the main queue is first-in first-out: with one consumer and no
\* rejects, messages are consumed in the order they were published; a
\* rejected message that is retried is re-queued behind every message
\* pending at that moment.
C38_QueueIsFifo ==
    /\ [][/\ PublishStep =>
               ConsumeOrder(mq'.pending)
                 = Append(ConsumeOrder(mq.pending), Uuid4(mqHist'.published))
          /\ RequeueStep =>
               ConsumeOrder(mq'.pending)
                 = Append(ConsumeOrder(mq.pending), mqWorker["w1"].message_id)
          /\ ConsumeStep =>
               /\ Val(mqWorker'["w1"].got).id = Head(ConsumeOrder(mq.pending))
               /\ ConsumeOrder(mq'.pending) = Tail(ConsumeOrder(mq.pending))
         ]_vars
    /\ [](\A j, k \in 1..MaxMessages :
            (/\ j < k
             /\ mqHist.deliveries[Uuid4(k)] > 0
             /\ \A m \in MessageIds : MaxRetryCount(m) = 0)
            => mqHist.deliveries[Uuid4(j)] > 0)

\* C38 witness: a message was rejected and re-queued while another message
\* was pending, and is now the one consume takes last.
C38_Witness ==
    /\ Len(mq.pending) = 2
    /\ loads(mq.pending[1]).retry_count = 1
    /\ loads(mq.pending[2]).retry_count = 0
    /\ mqWorker["w1"].pc = "idle"
    /\ mqWorker["w1"].ret = "True"
====
